---------------------------- MODULE Spec2Model ----------------------------
(***************************************************************************)
(* korrector: correction of series titles in a Komga catalog.              *)
(*                                                                         *)
(* The module models src/korrector/main.py: the year resolver              *)
(* (get_release_year), the title correction (make_korrection) and the      *)
(* batch driver over the relational catalog (korrect_database), the        *)
(* correction of the archives of the one-shots, the command line           *)
(* (cli.py), the raw-SQL batch (korrector.py) and the client of the REST   *)
(* API (krakoa.py).                                                        *)
(*                                                                         *)
(* A text (Python str) is a sequence of one-character strings, so that the *)
(* regular expressions, the substring tests, str.split and the f-strings   *)
(* of the code are computed character by character.                        *)
(***************************************************************************)
EXTENDS Naturals, Sequences, FiniteSets

(***************************************************************************)
(* Bounds of the model.                                                    *)
(***************************************************************************)
\* books of the series handed to a single call
MaxBooks == 2
\* series rows of the catalog in a batch run
NumSeries == 2
\* korrect_database runs in a row
MaxRuns == 2

(***************************************************************************)
(* Text.                                                                   *)
(***************************************************************************)
Digits == {"0", "1", "2", "3", "4", "5", "6", "7", "8", "9"}

\* Python's None where a text may be absent (a NULL column): a value that is
\* no text, its one element being no character.
None == <<"<None>">>

\* str(x) as an f-string renders it: None prints as the four letters "None"
Format(x) ==
    IF x = None THEN <<"N", "o", "n", "e">> ELSE x

\* bool(x) of an optional text: None and "" are falsy
Truthy(x) ==
    x # None /\ x # <<>>

\* c in s
Contains(s, c) ==
    \E i \in 1..Len(s) : s[i] = c

\* s.split(sep)[0]: the characters before the first sep (all of s without one)
RECURSIVE SplitFirst(_, _)
SplitFirst(s, sep) ==
    IF s = <<>> \/ Head(s) = sep
    THEN <<>>
    ELSE <<Head(s)>> \o SplitFirst(Tail(s), sep)

\* re.compile(r"\d{4}-\d{2}-\d{2}").match(s): the pattern matched at the start
\* of s; re.match does not anchor the end
DateMatch(s) ==
    /\ Len(s) >= 10
    /\ \A i \in {1, 2, 3, 4, 6, 7, 9, 10} : s[i] \in Digits
    /\ s[5] = "-"
    /\ s[8] = "-"

\* r"\((\d{4})\)" matched at position i of s
YearGroupAt(s, i) ==
    /\ i + 5 <= Len(s)
    /\ s[i] = "("
    /\ \A k \in 1..4 : s[i + k] \in Digits
    /\ s[i + 5] = ")"

\* re.search(r"\((\d{4})\)", s) scanning from position i: <<>> for no match
\* (None), else <<group(1)>> of the leftmost match
RECURSIVE YearSearchFrom(_, _)
YearSearchFrom(s, i) ==
    IF i > Len(s)
    THEN <<>>
    ELSE IF YearGroupAt(s, i)
         THEN <<SubSeq(s, i + 1, i + 4)>>
         ELSE YearSearchFrom(s, i + 1)

YearSearch(s) ==
    YearSearchFrom(s, 1)

(***************************************************************************)
(* Error messages (the ValueError texts of main.py).                       *)
(***************************************************************************)
InvalidReleaseDateMsg(name, release_date) ==
    <<"I", "n", "v", "a", "l", "i", "d", " ", "r", "e", "l", "e", "a", "s", "e",
      " ", "d", "a", "t", "e", " ", "f", "o", "r", " ">>
        \o name \o <<":", " ">> \o Format(release_date)

NoYearFoundMsg(name) ==
    <<"N", "o", " ", "f", "i", "r", "s", "t", " ", "i", "s", "s", "u", "e", ",",
      " ", "o", "r", " ", "y", "e", "a", "r", ",", " ", "f", "o", "u", "n", "d",
      " ", "i", "n", " ">> \o name

AlreadyCorrectMsg(name, meta_title) ==
    name \o <<" ", "i", "s", " ", "a", "l", "r", "e", "a", "d", "y", " ", "c",
              "o", "r", "r", "e", "c", "t", " ", "[">> \o meta_title \o <<"]">>

LockedMsg(name) ==
    name \o <<" ", "i", "s", " ", "m", "a", "n", "u", "a", "l", "l", "y", " ",
              "l", "o", "c", "k", "e", "d", " ", "b", "y", " ", "u", "s", "e",
              "r", ".">>

(***************************************************************************)
(* Outcome of a call: it returned (value: what it returned, or the title   *)
(* it stored) or raised ValueError (value: the message); prompts counts    *)
(* the calls of input().                                                   *)
(***************************************************************************)
Return(v, n) ==
    [raised |-> FALSE, value |-> v, prompts |-> n]

Raise(msg, n) ==
    [raised |-> TRUE, value |-> msg, prompts |-> n]

(***************************************************************************)
(* get_release_year.                                                       *)
(*                                                                         *)
(* A book is [book_metadata |-> m], m being <<>> for a book without        *)
(* metadata row and <<[number, release_date]>> otherwise.                  *)
(***************************************************************************)
\* next((book.book_metadata for book in books
\*       if book.book_metadata and book.book_metadata.number == "1"), None)
RECURSIVE FirstIssue(_)
FirstIssue(books) ==
    IF books = <<>>
    THEN <<>>
    ELSE IF /\ Head(books).book_metadata # <<>>
            /\ Head(books).book_metadata[1].number = "1"
         THEN Head(books).book_metadata
         ELSE FirstIssue(Tail(books))

\* the year of a first issue: validate its release date, keep what precedes
\* the first "-"
FirstIssueYear(name, first) ==
    IF ~Truthy(first.release_date) \/ ~DateMatch(first.release_date)
    THEN Raise(InvalidReleaseDateMsg(name, first.release_date), 0)
    ELSE Return(SplitFirst(first.release_date, "-"), 0)

\* PromptYear with the operator's response dropped: the default always wins
PromptYear_default_only(year, response) ==
    Return(year, 1)

\* input(...) answered by response; `response or year`
PromptYear(year, response) ==
    Return(IF response # <<>> THEN response ELSE year, 1)

\* GuessYear asking the operator when the name holds no year, as the
\* docstring's first paragraph has it, where the code raises
GuessYear_prompting(name, yes, response) ==
    LET match == YearSearch(name)
    IN  IF match = <<>>
        THEN Return(response, 1)
        ELSE IF yes
             THEN Return(match[1], 0)
             ELSE PromptYear(match[1], response)

\* the year guessed from the series name, confirmed by the operator unless yes
GuessYear(name, yes, response) ==
    LET match == YearSearch(name)
    IN  IF match = <<>>
        THEN Raise(NoYearFoundMsg(name), 0)
        ELSE IF yes
             THEN Return(match[1], 0)
             ELSE PromptYear(match[1], response)

\* get_release_year trying the series name before the first issue
get_release_year_name_first(s, yes, response) ==
    LET first == FirstIssue(s.books)
    IN  IF YearSearch(s.name) # <<>> \/ first = <<>>
        THEN GuessYear(s.name, yes, response)
        ELSE FirstIssueYear(s.name, first[1])

get_release_year(s, yes, response) ==
    LET first == FirstIssue(s.books)
    IN  IF first # <<>>
        THEN FirstIssueYear(s.name, first[1])
        ELSE GuessYear(s.name, yes, response)

(***************************************************************************)
(* make_korrection.                                                        *)
(***************************************************************************)
\* meta_title and "(" in meta_title and ")" in meta_title
AlreadyCorrect(meta_title) ==
    /\ Truthy(meta_title)
    /\ Contains(meta_title, "(")
    /\ Contains(meta_title, ")")

\* NewTitle without the parentheses around the year
NewTitle_without_parentheses(title, year) ==
    Format(title) \o <<" ">> \o year

\* f"{meta.title} ({year})"
NewTitle(title, year) ==
    Format(title) \o <<" ", "(">> \o year \o <<")">>

\* make_korrection without the title_lock test
make_korrection_ignoring_lock(s, yes, response) ==
    IF AlreadyCorrect(s.title)
    THEN Raise(AlreadyCorrectMsg(s.name, s.title), 0)
    ELSE LET year == get_release_year(s, yes, response)
         IN  IF year.raised
             THEN year
             ELSE Return(NewTitle(s.title, year.value), year.prompts)

\* make_korrection testing title_lock only once the year is resolved
make_korrection_lock_late(s, yes, response) ==
    IF AlreadyCorrect(s.title)
    THEN Raise(AlreadyCorrectMsg(s.name, s.title), 0)
    ELSE LET year == get_release_year(s, yes, response)
         IN  IF year.raised
             THEN year
             ELSE IF s.title_lock
                  THEN Raise(LockedMsg(s.name), year.prompts)
                  ELSE Return(NewTitle(s.title, year.value), year.prompts)

\* make_korrection resolving the year before it looks at the title
make_korrection_year_first(s, yes, response) ==
    LET year == get_release_year(s, yes, response)
    IN  IF year.raised
        THEN year
        ELSE IF AlreadyCorrect(s.title)
             THEN Raise(AlreadyCorrectMsg(s.name, s.title), year.prompts)
             ELSE IF s.title_lock
                  THEN Raise(LockedMsg(s.name), year.prompts)
                  ELSE Return(NewTitle(s.title, year.value), year.prompts)

\* make_korrection building the title from series.name, as the year is
make_korrection_from_name(s, yes, response) ==
    IF AlreadyCorrect(s.title)
    THEN Raise(AlreadyCorrectMsg(s.name, s.title), 0)
    ELSE IF s.title_lock
         THEN Raise(LockedMsg(s.name), 0)
         ELSE LET year == get_release_year(s, yes, response)
              IN  IF year.raised
                  THEN year
                  ELSE Return(NewTitle(s.name, year.value), year.prompts)

\* The outcome of make_korrection on series s: when it returns, value is the
\* title it stored in s.series_metadata.title; when it raises, the title is
\* left as it was.
make_korrection(s, yes, response) ==
    IF AlreadyCorrect(s.title)
    THEN Raise(AlreadyCorrectMsg(s.name, s.title), 0)
    ELSE IF s.title_lock
         THEN Raise(LockedMsg(s.name), 0)
         ELSE LET year == get_release_year(s, yes, response)
              IN  IF year.raised
                  THEN year
                  ELSE Return(NewTitle(s.title, year.value), year.prompts)

\* s.series_metadata.title after make_korrection
TitleAfter(s, outcome) ==
    IF outcome.raised THEN s.title ELSE outcome.value


(***************************************************************************)
(* Inputs.                                                                 *)
(***************************************************************************)
\* series.name
Names ==
    { <<"B">>,
      <<"F", "o", "o", " ", "v", "1", " ", "(", "1", "9", "9", "9", ")">>,
      <<"F", " ", "(", "2", "0", "0", "5", ")", " ", "(", "1", "9", "9", "9", ")">>,
      <<"F", " ", "(", "1", "9", "9", ")">>,
      <<"F", " ", "(", "1", "9", "9", "9", "9", ")">> }

\* series_metadata.title
Titles ==
    { <<>>,
      <<"F", "o", "o">>,
      <<"F", "o", "o", " ", "(", "1", "9", "9", "9", ")">>,
      <<")", "F", "(">>,
      <<"F", " ", "(">> }

\* book_metadata.number
Numbers == {"1", "01"}

\* book_metadata.release_date
Dates ==
    { None,
      <<>>,
      <<" ", " ", " ", " ">>,
      <<"1", "9", "9", "9", "-", "0", "1", "-", "0", "1">>,
      <<"2", "0", "0", "5", "-", "0", "6", "-", "1", "5">>,
      <<"2", "0", "0", "5", "-", "0", "6", "-", "1", "5", "x">>,
      <<"1", "9", "9", "9", "-", "1", "-", "0", "1">> }

\* what the operator types at the prompt
Responses ==
    { <<>>,
      <<"2", "0", "0", "5">>,
      <<"x">> }

Books ==
    {[book_metadata |-> <<>>]}
        \cup {[book_metadata |-> <<m>>] : m \in [number : Numbers, release_date : Dates]}

BookLists ==
    UNION {[1..n -> Books] : n \in 0..MaxBooks}

SeriesObjects ==
    [name : Names, title : Titles, title_lock : BOOLEAN, books : BookLists]

(***************************************************************************)
(* Archives: a cbz file is a zip archive, a sequence of named entries and  *)
(* an archive comment; ComicInfo.xml is the entry that holds the metadata  *)
(* document.                                                               *)
(***************************************************************************)
\* the most entries an archive holds beside ComicInfo.xml
MaxPages == 2

\* a file: none at the path, a zip archive, an empty file, the leading bytes
\* only of an archive, or bytes that are no zip archive
NoFile ==
    [kind |-> "absent"]

Zip(entries, comment) ==
    [kind |-> "zip", entries |-> entries, comment |-> comment]

EmptyFile ==
    [kind |-> "empty"]

PartialFile(data) ==
    [kind |-> "partial", of |-> data]

NotAZip ==
    [kind |-> "junk"]

\* Path.exists()
exists(file) ==
    file.kind # "absent"

\* the text of cbz_path number p
PathChars ==
    <<"1", "2", "3", "4", "5", "6", "7", "8", "9">>

PathText(p) ==
    <<"/", PathChars[p], ".", "c", "b", "z">>

\* ZipFile.namelist(): the names of the entries, in the order of the archive
namelist(cbz) ==
    [i \in 1..Len(cbz.entries) |-> cbz.entries[i].name]

\* ZipFile.read(name), ZipFile.open(name): the entry is looked up by its
\* name, and of the entries of one name the archive's directory gives the last
read(cbz, name) ==
    cbz.entries[CHOOSE i \in 1..Len(cbz.entries) :
                    /\ cbz.entries[i].name = name
                    /\ \A j \in (i + 1)..Len(cbz.entries) :
                          cbz.entries[j].name # name].data

\* the bytes of a document as found in an archive, and as etree.tostring
\* writes it (pretty printed, with a declaration); bytes that are no XML
Xml(root) ==
    [form |-> "file", root |-> root]

Malformed ==
    [malformed |-> TRUE]

wellformed(bytes) ==
    "root" \in DOMAIN bytes

\* etree.parse(xml_file).getroot() of well-formed bytes
parse(bytes) ==
    bytes.root

tostring(root) ==
    [form |-> "lxml", root |-> root]

\* root.find(tag): the element of that tag, <<>> for None; the text of an
\* empty element is None
find(root, tag) ==
    root[tag]

text(elem) ==
    elem[1]

\* title_elem.text = new_title
SetTitle(root, new_title) ==
    [root EXCEPT !["Title"] = <<new_title>>]

(***************************************************************************)
(* The errors of korrect_comic_info: the type raised and its message.      *)
(***************************************************************************)
Raises(type, msg) ==
    [raised |-> TRUE, type |-> type, value |-> msg]

Returns(v) ==
    [raised |-> FALSE, type |-> "", value |-> v]

NoCbzMsg(cbz_path) ==
    <<"N", "o", " ", "c", "b", "z", " ", "f", "o", "u", "n", "d", " ", "f",
      "o", "r", " ">>
        \o cbz_path

NoComicInfoMsg(cbz_path) ==
    <<"N", "o", " ", "C", "o", "m", "i", "c", "I", "n", "f", "o", ".", "x",
      "m", "l", " ", "f", "o", "u", "n", "d", " ", "i", "n", " ">>
        \o cbz_path

NoYearMsg(cbz_path) ==
    <<"N", "o", " ", "y", "e", "a", "r", " ", "f", "o", "u", "n", "d", " ",
      "i", "n", " ", "C", "o", "m", "i", "c", "I", "n", "f", "o", ".", "x",
      "m", "l", " ", "f", "o", "r", " ">>
        \o cbz_path

NoTitleMsg(cbz_path) ==
    <<"N", "o", " ", "t", "i", "t", "l", "e", " ", "f", "o", "u", "n", "d",
      " ", "i", "n", " ", "C", "o", "m", "i", "c", "I", "n", "f", "o", ".",
      "x", "m", "l", " ", "f", "o", "r", " ">>
        \o cbz_path

ComicInfoCorrectMsg(cbz_path) ==
    <<"C", "o", "m", "i", "c", "I", "n", "f", "o", ".", "x", "m", "l", " ",
      "f", "o", "r", " ">>
        \o cbz_path
        \o <<" ", "i", "s", " ", "a", "l", "r", "e", "a", "d", "y", " ", "c",
             "o", "r", "r", "e", "c", "t">>

(***************************************************************************)
(* get_comic_info_data and korrect_comic_info.                             *)
(***************************************************************************)
\* f"{series_elem.text} ({root.find('Year').text})"
ComicInfoTitle_without_year(series_text, year_text) ==
    Format(series_text)

ComicInfoTitle(series_text, year_text) ==
    Format(series_text) \o <<" ", "(">> \o Format(year_text) \o <<")">>

\* returns the new title, or raises; series_elem.text of a document without
\* Series is an AttributeError
get_comic_info_data_lenient(root, cbz_path) ==
    IF find(root, "Year") = <<>>
    THEN Returns(<<>>)
    ELSE IF find(root, "Title") = <<>>
         THEN Raises("ValueError", NoTitleMsg(cbz_path))
         ELSE IF find(root, "Series") = <<>>
              THEN Raises("AttributeError", <<>>)
              ELSE LET new_title == ComicInfoTitle(text(find(root, "Series")),
                                                   text(find(root, "Year")))
                   IN  IF text(find(root, "Title")) = new_title
                       THEN Raises("ValueError", ComicInfoCorrectMsg(cbz_path))
                       ELSE Returns(new_title)

get_comic_info_data_rewriting(root, cbz_path) ==
    IF find(root, "Year") = <<>>
    THEN Raises("ValueError", NoYearMsg(cbz_path))
    ELSE IF find(root, "Title") = <<>>
         THEN Raises("ValueError", NoTitleMsg(cbz_path))
         ELSE IF find(root, "Series") = <<>>
              THEN Raises("AttributeError", <<>>)
              ELSE Returns(ComicInfoTitle(text(find(root, "Series")),
                                          text(find(root, "Year"))))

get_comic_info_data(root, cbz_path) ==
    IF find(root, "Year") = <<>>
    THEN Raises("ValueError", NoYearMsg(cbz_path))
    ELSE IF find(root, "Title") = <<>>
         THEN Raises("ValueError", NoTitleMsg(cbz_path))
         ELSE IF find(root, "Series") = <<>>
              THEN Raises("AttributeError", <<>>)
              ELSE LET new_title == ComicInfoTitle(text(find(root, "Series")),
                                                   text(find(root, "Year")))
                   IN  IF text(find(root, "Title")) = new_title
                       THEN Raises("ValueError", ComicInfoCorrectMsg(cbz_path))
                       ELSE Returns(new_title)

\* korrect_comic_info up to the log record: the new title, or the error
\* raised; a file that is no zip archive is a BadZipFile, bytes that are no
\* XML an XMLSyntaxError
ReadComicInfo(file, path) ==
    IF ~exists(file)
    THEN Raises("FileNotFoundError", NoCbzMsg(PathText(path)))
    ELSE IF file.kind # "zip"
         THEN Raises("BadZipFile", <<>>)
         ELSE IF \A i \in 1..Len(file.entries) :
                    namelist(file)[i] # "ComicInfo.xml"
              THEN Raises("FileNotFoundError", NoComicInfoMsg(PathText(path)))
              ELSE IF ~wellformed(read(file, "ComicInfo.xml"))
                   THEN Raises("XMLSyntaxError", <<>>)
                   ELSE get_comic_info_data(parse(read(file, "ComicInfo.xml")),
                                            PathText(path))

\* the names of the old archive except ComicInfo.xml, in order
OtherItems(cbz_contents) ==
    SelectSeq(cbz_contents, LAMBDA item : item # "ComicInfo.xml")

\* the new cbz built in memory: every other item of the old one, read by its
\* name, then the new ComicInfo.xml; no comment is set
BuildCbz(cbz, new_xml) ==
    Zip([i \in 1..Len(OtherItems(namelist(cbz))) |->
            [name |-> OtherItems(namelist(cbz))[i],
             data |-> read(cbz, OtherItems(namelist(cbz))[i])]]
          \o <<[name |-> "ComicInfo.xml", data |-> new_xml]>>,
        <<>>)

new_cbz_data(cbz, new_title) ==
    BuildCbz(cbz, tostring(SetTitle(parse(read(cbz, "ComicInfo.xml")), new_title)))

(***************************************************************************)
(* The archives explored.                                                  *)
(***************************************************************************)
PageEntries ==
    { [name |-> "a.jpg", data |-> [bytes |-> "x"]],
      [name |-> "a.jpg", data |-> [bytes |-> "y"]],
      [name |-> "b.jpg", data |-> [bytes |-> "x"]] }

PageLists ==
    UNION {[1..n -> PageEntries] : n \in 0..MaxPages}

\* the texts of the elements of the documents: an element is absent (<<>>),
\* empty (its text None) or holds a text
Baz ==
    <<"B", "a", "z">>

SeriesElems ==
    { <<>>, <<None>>, <<Baz>> }

TitleElems ==
    { <<>>, <<None>>, <<Baz>>,
      << <<"B", "a", "z", " ", "(", "2", "0", "0", "1", ")">> >>,
      << <<"N", "o", "n", "e", " ", "(", "2", "0", "0", "1", ")">> >> }

YearElems ==
    { <<>>, << <<"2", "0", "0", "1">> >> }

Documents ==
    [Series : SeriesElems, Title : TitleElems, Year : YearElems]

ComicInfos ==
    { Xml(root) : root \in Documents } \cup { Malformed }

Comments ==
    { <<>>, <<"c">> }

\* entry e put after the first k entries of s
Insert(s, k, e) ==
    SubSeq(s, 1, k) \o <<e>> \o SubSeq(s, k + 1, Len(s))

Archives ==
    { Zip(pages, comment) : pages \in PageLists, comment \in Comments }
        \cup UNION { { Zip(Insert(pages, k, [name |-> "ComicInfo.xml", data |-> xml]),
                           comment) :
                         k \in 0..Len(pages), xml \in ComicInfos, comment \in Comments } :
                     pages \in PageLists }

Files ==
    Archives \cup { NoFile, EmptyFile, NotAZip }

(***************************************************************************)
(* State.                                                                  *)
(***************************************************************************)
VARIABLES
    \* a single call: the Series object handed to it, as it is now
    series,
    \* the object as it was when the call was made
    given,
    \* the function called ("none" before the call), its yes argument and
    \* the operator's response
    called,
    \* the outcome of the call
    result,
    \* the catalog file: the rows of series joined with series_metadata and
    \* their books, as stored
    db,
    \* series_metadata.title of the objects loaded in the open Session
    session,
    \* korrect_database: "idle" outside a run, "open" when called and about
    \* to open the catalog, "loop" inside the for loop
    pc,
    \* the position of the for loop in the queried list
    idx,
    \* the dry_run, yes and backup_path arguments of the run
    dry_run,
    yes,
    backup_path,
    \* the backup directory: the copies of the catalog file, oldest first
    backups,
    \* the series the for loop of the run has evaluated so far, in order,
    \* each with the outcome of its make_korrection: whether it raised, and
    \* the message raised or the title set
    evaluated,
    \* the completed runs, in order: their dry_run and backup_path arguments,
    \* the stored titles before and after, the series evaluated, the number of
    \* copies in the backup directory at the return and the string returned
    runs,
    \* the files at the paths of the library
    fs,
    \* the command at work on the archives (fn "none" when there is none): its
    \* dry_run argument, the paths or series it loops over and its position,
    \* the files and the stored titles as they were when it began, and the
    \* items done so far, each with its path, the title logged or the error
    \* raised
    job,
    \* the korrect_comic_info call that has built its new cbz in memory
    \* ("built") and opened the file for writing ("opened")
    patch,
    \* the command on the archives that ended last (<<>> before any has),
    \* with the files after it and how it ended: "returned", "raised" or
    \* "killed"
    ended,
    \* the command line at work: the sub-command and its arguments, the
    \* stored titles when it was given, how far main has come ("none" before
    \* any command line, "running", "exited"), the exception main has logged
    \* ("" when none), the series evaluated by a korrect_database that
    \* did not return, and the exit status of the process
    cli,
    \* the Komga server behind the REST API: the pages in which it serves the
    \* list of its series, and how it answers a request
    komga

call_vars == <<series, given, called, result>>

batch_vars ==
    <<db, session, pc, idx, dry_run, yes, backup_path, backups, evaluated, runs>>

archive_vars ==
    <<fs, job, patch, ended>>

vars ==
    <<series, given, called, result, db, session, pc, idx, dry_run, yes,
      backup_path, backups, evaluated, runs, fs, job, patch, ended, cli,
      komga>>

NoCall == [fn |-> "none", yes |-> FALSE, response |-> <<>>]

NoResult == Return(<<>>, 0)

\* the paths of the library: the archive of series i is looked for at path i
Paths ==
    1..NumSeries

NoFiles ==
    [p \in Paths |-> NoFile]

NoJob ==
    [fn |-> "none", dry_run |-> FALSE, items |-> <<>>, idx |-> 0,
     before |-> <<>>, titles |-> <<>>, log |-> <<>>]

NoPatch ==
    [pc |-> "none", path |-> 0, new_title |-> <<>>, new_cbz_data |-> NoFile]

\* no command line has been given
NoCli ==
    [status |-> "none", command |-> "", args |-> <<>>, titles |-> <<>>,
     failure |-> "", evaluated |-> <<>>, exit_status |-> <<>>]

\* no Komga server is addressed
NoServer ==
    [pages |-> <<>>, answer |-> "none"]

\* no command at work on the archives, the files being f, no command line
\* and no server
ArchivesAtRest(f) ==
    /\ fs = f
    /\ job = NoJob
    /\ patch = NoPatch
    /\ ended = <<>>
    /\ cli = NoCli
    /\ komga = NoServer

(***************************************************************************)
(* A single call of get_release_year or make_korrection on any Series.     *)
(***************************************************************************)
\* the stored titles of a catalog
StoredTitles(catalog) ==
    [i \in 1..NumSeries |-> catalog[i].title]

\* the batch at rest on catalog c
BatchAtRest(c) ==
    /\ db = c
    /\ session = StoredTitles(c)
    /\ pc = "idle"
    /\ idx = 0
    /\ dry_run = FALSE
    /\ yes = FALSE
    /\ backup_path = <<>>
    /\ backups = <<>>
    /\ evaluated = <<>>
    /\ runs = <<>>

\* no call under way, on Series object s
NoCallOn(s) ==
    /\ series = s
    /\ given = s
    /\ called = NoCall
    /\ result = NoResult

\* a catalog row that a scenario of the tests describes: the series of
\* test_data.py, already correct and unlocked
PlainSeries ==
    [name |-> <<"F", "o", "o", " ", "v", "1", " ", "(", "1", "9", "9", "9", ")">>,
     title |-> <<"F", "o", "o", " ", "(", "1", "9", "9", "9", ")">>,
     title_lock |-> FALSE,
     books |-> <<>>]

InitCall ==
    /\ series \in SeriesObjects
    /\ given = series
    /\ called = NoCall
    /\ result = NoResult
    /\ BatchAtRest([i \in 1..NumSeries |-> PlainSeries])
    /\ ArchivesAtRest(NoFiles)

\* the response is consumed only by a call that prompts
Consumed(outcome, response) ==
    IF outcome.prompts > 0 THEN response ELSE <<>>

CallGetReleaseYear ==
    /\ called.fn = "none"
    /\ \E y \in BOOLEAN, r \in Responses :
          LET outcome == get_release_year(series, y, r)
          IN  /\ result' = outcome
              /\ called' = [fn |-> "get_release_year", yes |-> y,
                            response |-> Consumed(outcome, r)]
    /\ UNCHANGED <<series, given>>
    /\ UNCHANGED batch_vars
    /\ UNCHANGED archive_vars
    /\ UNCHANGED <<cli, komga>>

CallMakeKorrection ==
    /\ called.fn = "none"
    /\ \E y \in BOOLEAN, r \in Responses :
          LET outcome == make_korrection(series, y, r)
          IN  /\ result' = outcome
              /\ called' = [fn |-> "make_korrection", yes |-> y,
                            response |-> Consumed(outcome, r)]
              /\ series' = [series EXCEPT !.title = TitleAfter(series, outcome)]
    /\ UNCHANGED given
    /\ UNCHANGED batch_vars
    /\ UNCHANGED archive_vars
    /\ UNCHANGED <<cli, komga>>

NextCall ==
    \/ CallGetReleaseYear
    \/ CallMakeKorrection

SpecCall ==
    InitCall /\ [][NextCall]_vars

(***************************************************************************)
(* korrect_database: runs of the batch over a catalog.                     *)
(***************************************************************************)
\* the rows of the catalogs explored: a series whose name holds a year or
\* none, whose title is corrected or not, locked or not, with no book, with a
\* dated first issue or with a first issue of blank date
CatalogNames ==
    { <<"B">>,
      <<"F", "o", "o", " ", "v", "1", " ", "(", "1", "9", "9", "9", ")">> }

CatalogTitles ==
    { <<"F", "o", "o">>,
      <<"F", "o", "o", " ", "(", "1", "9", "9", "9", ")">> }

\* the url of a book is given by the path it names
CatalogBooks ==
    { <<>>,
      <<[url |-> 1,
         book_metadata |->
            <<[number |-> "1",
               release_date |-> <<"2", "0", "0", "5", "-", "0", "6", "-", "1", "5">>]>>]>>,
      <<[url |-> 1,
         book_metadata |->
            <<[number |-> "1", release_date |-> <<" ", " ", " ", " ">>]>>]>> }

\* the year is looked for in the name of a series without books only, a
\* corrected title stops make_korrection whatever the books, and so does a
\* lock whatever the source of the year: one row of each kind is kept
CatalogRows ==
    { r \in [name : CatalogNames, title : CatalogTitles, title_lock : BOOLEAN,
             oneshot : {FALSE}, books : CatalogBooks] :
        /\ r.books # <<>> => r.name = <<"B">>
        /\ AlreadyCorrect(r.title) => (r.books = <<>> /\ r.name # <<"B">>)
        /\ r.title_lock =>
              \/ AlreadyCorrect(r.title)
              \/ \E b \in 1..Len(r.books) :
                    DateMatch(r.books[b].book_metadata[1].release_date) }

Init ==
    /\ \E c \in [1..NumSeries -> CatalogRows] : BatchAtRest(c)
    /\ NoCallOn(PlainSeries)
    /\ ArchivesAtRest(NoFiles)

\* the Series object i of the open Session
Loaded(i) ==
    [db[i] EXCEPT !.title = session[i]]

\* the backup_path argument: the default "" or a directory
BackupPaths ==
    { <<>>, <<"/", "b">> }

\* backup: shutil.copy of the catalog file into the backup directory
backup_nothing(komga_db, komga_backup) ==
    komga_backup

backup(komga_db, komga_backup) ==
    Append(komga_backup, komga_db)

\* the string korrect_database returns
CompletionSummary ==
    "Korrection completed successfully."

\* korrect_database is called: the backup if a backup_path is given
korrect_database_backup ==
    /\ pc = "idle"
    /\ Len(runs) < MaxRuns
    /\ \E d \in BOOLEAN, y \in BOOLEAN, b \in BackupPaths :
          /\ dry_run' = d
          /\ yes' = y
          /\ backup_path' = b
          /\ backups' = IF Truthy(b) THEN backup(db, backups) ELSE backups
    /\ pc' = "open"
    /\ UNCHANGED <<db, session, idx, evaluated, runs>>
    /\ UNCHANGED call_vars
    /\ UNCHANGED <<cli, komga>>
    /\ UNCHANGED archive_vars

\* then the Session is opened on the catalog file and all the series are
\* loaded
korrect_database_begin ==
    /\ pc = "open"
    /\ session' = StoredTitles(db)
    /\ evaluated' = <<>>
    /\ idx' = 1
    /\ pc' = "loop"
    /\ UNCHANGED <<db, dry_run, yes, backup_path, backups, runs>>
    /\ UNCHANGED call_vars
    /\ UNCHANGED <<cli, komga>>
    /\ UNCHANGED archive_vars

\* what the operator answers to the prompts of a run: the default or a year
BatchResponses ==
    { <<>>, <<"2", "0", "0", "5">> }

\* continue: after a series, skipped or not, the for loop takes the next
NextSeries_stop_on_error(i, outcome) ==
    IF outcome.raised THEN NumSeries + 1 ELSE i + 1

NextSeries(i, outcome) ==
    i + 1

\* one turn of the for loop: make_korrection on the next series; a ValueError
\* is logged and the series skipped
korrect_database_series ==
    /\ pc = "loop"
    /\ idx <= NumSeries
    /\ \E r \in BatchResponses :
          LET outcome == make_korrection(Loaded(idx), yes, r)
          IN  /\ session' = [session EXCEPT ![idx] = TitleAfter(Loaded(idx), outcome)]
              /\ evaluated' = Append(evaluated, [series |-> idx,
                                                 raised |-> outcome.raised,
                                                 value |-> outcome.value])
              /\ idx' = NextSeries(idx, outcome)
    /\ UNCHANGED <<db, pc, dry_run, yes, backup_path, backups, runs>>
    /\ UNCHANGED call_vars
    /\ UNCHANGED <<cli, komga>>
    /\ UNCHANGED archive_vars

\* session.commit(): the titles of the Session's objects are stored
Commit(catalog, titles) ==
    [i \in 1..NumSeries |-> [catalog[i] EXCEPT !.title = titles[i]]]

\* after the loop: commit unless dry_run, close the Session, return (the
\* arguments of the call are gone with it)
korrect_database_end ==
    /\ pc = "loop"
    /\ idx > NumSeries
    /\ db' = IF dry_run THEN db ELSE Commit(db, session)
    /\ runs' = Append(runs, [dry_run |-> dry_run,
                             backup_path |-> backup_path,
                             before |-> StoredTitles(db),
                             after |-> StoredTitles(db'),
                             evaluated |-> evaluated,
                             copies |-> Len(backups),
                             returned |-> CompletionSummary])
    /\ session' = StoredTitles(db')
    /\ evaluated' = <<>>
    /\ pc' = "idle"
    /\ idx' = 0
    /\ dry_run' = FALSE
    /\ yes' = FALSE
    /\ backup_path' = <<>>
    /\ UNCHANGED backups
    /\ UNCHANGED call_vars
    /\ UNCHANGED <<cli, komga>>
    /\ UNCHANGED archive_vars

Next ==
    \/ korrect_database_backup
    \/ korrect_database_begin
    \/ korrect_database_series
    \/ korrect_database_end

Spec ==
    Init /\ [][Next]_vars

(***************************************************************************)
(* The commands on the archives: korrect_comic_info called on one path,    *)
(* korrect_comic_info_path over the cbz files of a directory and           *)
(* korrect_database_oneshots over the one-shot series of the catalog.      *)
(***************************************************************************)
\* a command begins
Started(fn, d, items) ==
    [fn |-> fn, dry_run |-> d, items |-> items, idx |-> 1, before |-> fs,
     titles |-> StoredTitles(db), log |-> <<>>]

\* a command has ended
Ended(j, status, files) ==
    [fn |-> j.fn, dry_run |-> j.dry_run, items |-> j.items, before |-> j.before,
     titles |-> j.titles, after |-> files, log |-> j.log, status |-> status]

\* the loops catch ValueError and FileNotFoundError; a call from outside
\* catches nothing
Caught(fn, type) ==
    /\ fn # "korrect_comic_info"
    /\ type \in {"ValueError", "FileNotFoundError"}

\* the call on the current item ends with outcome, leaving the file at its
\* path as file: an error that is not caught ends the command, else the loop
\* takes the next item and returns after the last
EndOfItem(path, outcome, files) ==
    LET logged == [job EXCEPT !.log = Append(@, [item |-> job.items[job.idx],
                                                 path |-> path,
                                                 raised |-> outcome.raised,
                                                 type |-> outcome.type,
                                                 value |-> outcome.value])]
    IN  /\ fs' = files
        /\ patch' = NoPatch
        /\ IF outcome.raised /\ ~Caught(job.fn, outcome.type)
           THEN /\ job' = NoJob
                /\ ended' = <<Ended(logged, "raised", files)>>
           ELSE IF job.idx = Len(job.items)
                THEN /\ job' = NoJob
                     /\ ended' = <<Ended(logged, "returned", files)>>
                ELSE /\ job' = [logged EXCEPT !.idx = @ + 1]
                     /\ UNCHANGED ended

\* a loop begins over items; over none it returns at once
Begin(fn, d, items) ==
    /\ job = NoJob
    /\ IF items = <<>>
       THEN /\ ended' = <<Ended(Started(fn, d, items), "returned", fs)>>
            /\ UNCHANGED job
       ELSE /\ job' = Started(fn, d, items)
            /\ UNCHANGED ended
    /\ UNCHANGED <<fs, patch>>
    /\ UNCHANGED call_vars
    /\ UNCHANGED <<cli, komga>>
    /\ UNCHANGED batch_vars

\* korrect_comic_info(cbz_path, dry_run) is called on a path
korrect_comic_info_call ==
    \E p \in Paths, d \in BOOLEAN : Begin("korrect_comic_info", d, <<p>>)

\* korrect_comic_info_path: rglob finds the cbz files that are there
korrect_comic_info_path ==
    \E d \in BOOLEAN :
        Begin("korrect_comic_info_path", d,
              SelectSeq([p \in Paths |-> p], LAMBDA p : exists(fs[p])))

\* korrect_database_oneshots: the query for the series with oneshot set
korrect_database_oneshots ==
    \E d \in BOOLEAN :
        Begin("korrect_database_oneshots", d,
              SelectSeq([i \in 1..NumSeries |-> i], LAMBDA i : db[i].oneshot))

\* if dry_run: return
Rewrites_in_dry_run(outcome, d) ==
    ~outcome.raised

Rewrites(outcome, d) ==
    ~outcome.raised /\ ~d

\* korrect_comic_info up to the new cbz built in memory: it raises, returns
\* under dry_run, or goes on to write
korrect_comic_info_build(path) ==
    LET outcome == ReadComicInfo(fs[path], path)
    IN  IF ~Rewrites(outcome, job.dry_run)
        THEN EndOfItem(path, outcome, fs)
        ELSE /\ patch' = [pc |-> "built", path |-> path,
                          new_title |-> outcome.value,
                          new_cbz_data |-> new_cbz_data(fs[path], outcome.value)]
             /\ UNCHANGED <<fs, job, ended>>

\* the call of korrect_comic_info: from outside, or by the loop of
\* korrect_comic_info_path on the next file
korrect_comic_info ==
    /\ job.fn \in {"korrect_comic_info", "korrect_comic_info_path"}
    /\ patch.pc = "none"
    /\ korrect_comic_info_build(job.items[job.idx])
    /\ UNCHANGED call_vars
    /\ UNCHANGED <<cli, komga>>
    /\ UNCHANGED batch_vars

\* korrect_comic_info_database on the next one-shot series: the url of its
\* first book gives the path; .url of no book is an AttributeError
korrect_comic_info_database ==
    /\ job.fn = "korrect_database_oneshots"
    /\ patch.pc = "none"
    /\ IF db[job.items[job.idx]].books = <<>>
       THEN EndOfItem(0, Raises("AttributeError", <<>>), fs)
       ELSE korrect_comic_info_build(db[job.items[job.idx]].books[1].url)
    /\ UNCHANGED call_vars
    /\ UNCHANGED <<cli, komga>>
    /\ UNCHANGED batch_vars

\* cbz_path.open("wb"): the file is opened and truncated, or the open is
\* refused (an OSError) and the file left alone
korrect_comic_info_open ==
    /\ patch.pc = "built"
    /\ \/ /\ fs' = [fs EXCEPT ![patch.path] = EmptyFile]
          /\ patch' = [patch EXCEPT !.pc = "opened"]
          /\ UNCHANGED <<job, ended>>
       \/ EndOfItem(patch.path, Raises("OSError", <<>>), fs)
    /\ UNCHANGED call_vars
    /\ UNCHANGED <<cli, komga>>
    /\ UNCHANGED batch_vars

\* new_cbz.write(new_cbz_data.getvalue()): the new cbz is written, or the
\* write fails (an OSError) with none or some of the bytes written
korrect_comic_info_write ==
    /\ patch.pc = "opened"
    /\ \/ EndOfItem(patch.path, Returns(patch.new_title),
                    [fs EXCEPT ![patch.path] = patch.new_cbz_data])
       \/ \E left \in {EmptyFile, PartialFile(patch.new_cbz_data)} :
             EndOfItem(patch.path, Raises("OSError", <<>>),
                       [fs EXCEPT ![patch.path] = left])
    /\ UNCHANGED call_vars
    /\ UNCHANGED <<cli, komga>>
    /\ UNCHANGED batch_vars

\* the process is interrupted or crashes: the command ends where it is, and
\* a write under way may have written some of the bytes
Interrupt ==
    /\ job # NoJob
    /\ \E files \in IF patch.pc = "opened"
                     THEN {fs, [fs EXCEPT ![patch.path] =
                                    PartialFile(patch.new_cbz_data)]}
                     ELSE {fs} :
          /\ fs' = files
          /\ ended' = <<Ended(job, "killed", files)>>
    /\ job' = NoJob
    /\ patch' = NoPatch
    /\ UNCHANGED call_vars
    /\ UNCHANGED <<cli, komga>>
    /\ UNCHANGED batch_vars

(***************************************************************************)
(* korrect_comic_info called on any archive, time and again.               *)
(***************************************************************************)
InitPatch ==
    /\ \E file \in Files :
          ArchivesAtRest([p \in Paths |-> IF p = 1 THEN file ELSE NoFile])
    /\ BatchAtRest([i \in 1..NumSeries |-> PlainSeries])
    /\ NoCallOn(PlainSeries)

NextPatch ==
    \/ korrect_comic_info_call
    \/ korrect_comic_info
    \/ korrect_comic_info_open
    \/ korrect_comic_info_write
    \/ Interrupt

SpecPatch ==
    InitPatch /\ [][NextPatch]_vars

(***************************************************************************)
(* One command on a library: korrect_database, korrect_comic_info_path or  *)
(* korrect_database_oneshots, on a catalog without archives or on a        *)
(* catalog of series, one-shots or not, each with its archive.             *)
(***************************************************************************)
\* the document of a one-shot whose Title is to be corrected
BazRoot ==
    [Series |-> <<Baz>>, Title |-> <<Baz>>, Year |-> << <<"2", "0", "0", "1">> >>]

\* the files of the library: none, an archive to correct, a corrected one,
\* one whose document has no Series
LibraryFiles ==
    { NoFile,
      Zip(<<[name |-> "a.jpg", data |-> [bytes |-> "x"]],
            [name |-> "ComicInfo.xml", data |-> Xml(BazRoot)]>>, <<>>),
      Zip(<<[name |-> "ComicInfo.xml",
             data |-> Xml(SetTitle(BazRoot, ComicInfoTitle(Baz, <<"2", "0", "0", "1">>)))]>>,
          <<>>),
      Zip(<<[name |-> "ComicInfo.xml",
             data |-> Xml([BazRoot EXCEPT !["Series"] = <<>>])]>>, <<>>) }

\* series i of the library: a one-shot or not, without a book or with the
\* book whose url names path i
LibraryRow(i, oneshot, book) ==
    [name |-> <<"B">>,
     title |-> <<"F", "o", "o">>,
     title_lock |-> FALSE,
     oneshot |-> oneshot,
     books |-> IF book
               THEN <<[url |-> i,
                       book_metadata |->
                          <<[number |-> "1",
                             release_date |-> <<"2", "0", "0", "5", "-", "0", "6",
                                                "-", "1", "5">>]>>]>>
               ELSE <<>>]

Libraries ==
    { [i \in 1..NumSeries |-> LibraryRow(i, k[i].oneshot, k[i].book)] :
        k \in [1..NumSeries -> [oneshot : BOOLEAN, book : BOOLEAN]] }

InitArchive ==
    /\ \/ \E c \in [1..NumSeries -> CatalogRows] :
             /\ BatchAtRest(c)
             /\ ArchivesAtRest(NoFiles)
       \/ \E c \in Libraries, f \in [Paths -> LibraryFiles] :
             /\ BatchAtRest(c)
             /\ ArchivesAtRest(f)
    /\ NoCallOn(PlainSeries)

\* no command has been given yet
OneCommand ==
    /\ pc = "idle"
    /\ runs = <<>>
    /\ job = NoJob
    /\ ended = <<>>

NextArchive ==
    \/ OneCommand /\ korrect_database_backup
    \/ korrect_database_begin
    \/ korrect_database_series
    \/ korrect_database_end
    \/ OneCommand /\ korrect_comic_info_path
    \/ OneCommand /\ korrect_database_oneshots
    \/ korrect_comic_info
    \/ korrect_comic_info_database
    \/ korrect_comic_info_open
    \/ korrect_comic_info_write
    \/ Interrupt

SpecArchive ==
    InitArchive /\ [][NextArchive]_vars

(***************************************************************************)
(* Logging: the level at which each driver reports the outcome of an item. *)
(* A correction is logged at info by make_korrection and by                *)
(* korrect_comic_info themselves; an error the driver catches is logged by *)
(* the driver, at a level it chooses from the text of the message.         *)
(***************************************************************************)
\* sub in s, of two texts
Substring(sub, s) ==
    \E i \in 0..(Len(s) - Len(sub)) : SubSeq(s, i + 1, i + Len(sub)) = sub

korrect_database_level(outcome) ==
    IF ~outcome.raised
    THEN "info"
    ELSE IF \/ Substring(<<"N", "o", " ", "f", "i", "r", "s", "t">>, outcome.value)
            \/ Substring(<<"I", "n", "v", "a", "l", "i", "d">>, outcome.value)
         THEN "warning"
         ELSE "debug"

korrect_comic_info_path_level(outcome) ==
    IF ~outcome.raised THEN "info" ELSE "warning"

korrect_database_oneshots_level(outcome) ==
    IF ~outcome.raised
    THEN "info"
    ELSE IF Substring(<<"c", "o", "r", "r", "e", "c", "t">>, outcome.value)
         THEN "debug"
         ELSE "warning"

(***************************************************************************)
(* The command line (cli.py): main parses the arguments and calls the      *)
(* handler of the sub-command inside try/except Exception; the handler of  *)
(* korrect-komga calls korrect_database and then, under -o,                *)
(* korrect_database_oneshots; the handler of korrect-comic-info calls      *)
(* korrect_comic_info_path.                                                *)
(***************************************************************************)
\* the command lines: a sub-command with its arguments, or none. The
\* arguments of korrect-komga: db_path and -r given or not, -b with its
\* directory, and the flags; those of korrect-comic-info: the flags
CommandLines ==
    {[command |-> "korrect-komga", args |-> a] :
        a \in [db_path : BOOLEAN, backup : BackupPaths,
               korrect_database : BOOLEAN, korrect_oneshots : BOOLEAN,
               dry_run : BOOLEAN, yes : BOOLEAN, replace : BOOLEAN]}
        \cup {[command |-> "korrect-comic-info", args |-> a] :
                 a \in [oneshots : BOOLEAN, dry_run : BOOLEAN]}
        \cup {[command |-> "", args |-> <<>>]}

\* the status with which argparse leaves on a command line it refuses
UsageStatus ==
    2

\* main logs the exception that leaves a handler and returns: the process
\* ends as after a handler that returned
ExitStatus(failure) ==
    0

\* the checks of the handlers before any call: the ValueError they raise
\* ("" when none)
HandlerCheck(c) ==
    IF c.command = "korrect-komga"
    THEN IF ~c.args.db_path THEN "Database path must be specified"
         ELSE IF c.args.korrect_database /\ c.args.korrect_oneshots
              THEN "-d cannot be used with -o"
         ELSE IF c.args.replace /\ ~c.args.korrect_oneshots
              THEN "-r can only be used with -o"
         ELSE ""
    ELSE IF ~c.args.oneshots THEN "Oneshots directory must be specified"
         ELSE ""

\* main has left: with the exception it logged ("" when none) and the
\* series evaluated by a korrect_database that did not return
Exited(c, failure, log, status) ==
    [c EXCEPT !.status = "exited", !.failure = failure, !.evaluated = log,
              !.exit_status = status]

\* main: the arguments are parsed (no sub-command is a usage error), and the
\* handler makes its checks
main ==
    /\ cli.status = "none"
    /\ pc = "idle"
    /\ runs = <<>>
    /\ job = NoJob
    /\ ended = <<>>
    /\ \E c \in CommandLines :
          LET begun == [status |-> "running", command |-> c.command,
                        args |-> c.args, titles |-> StoredTitles(db),
                        failure |-> "", evaluated |-> <<>>,
                        exit_status |-> <<>>]
          IN  cli' = IF c.command = ""
                     THEN Exited(begun, "", <<>>, UsageStatus)
                     ELSE IF HandlerCheck(c) # ""
                          THEN Exited(begun, "ValueError", <<>>,
                                      ExitStatus("ValueError"))
                          ELSE begun
    /\ UNCHANGED call_vars
    /\ UNCHANGED batch_vars
    /\ UNCHANGED archive_vars
    /\ UNCHANGED komga

\* handle_korrect_komga: korrect_database is called with the arguments of the
\* command line, whatever -d and -o
handle_korrect_komga ==
    /\ cli.status = "running"
    /\ cli.command = "korrect-komga"
    /\ runs = <<>>
    /\ korrect_database_backup
    /\ dry_run' = cli.args.dry_run
    /\ yes' = cli.args.yes
    /\ backup_path' = cli.args.backup

\* korrect_database does not return: the batch is back at rest, with what
\* the catalog file holds, and main logs the exception
Aborted(catalog, failure) ==
    /\ db' = catalog
    /\ session' = StoredTitles(catalog)
    /\ cli' = Exited(cli, failure, evaluated, ExitStatus(failure))
    /\ evaluated' = <<>>
    /\ pc' = "idle"
    /\ idx' = 0
    /\ dry_run' = FALSE
    /\ yes' = FALSE
    /\ backup_path' = <<>>
    /\ UNCHANGED <<backups, runs>>
    /\ UNCHANGED call_vars
    /\ UNCHANGED archive_vars
    /\ UNCHANGED komga

\* the Session is closed without a commit: what the loop has set on its
\* objects is dropped, the catalog file holds what it held
Rollback_storing(catalog, titles) ==
    [i \in 1..NumSeries |-> [catalog[i] EXCEPT !.title = titles[i]]]

Rollback(catalog, titles) ==
    catalog

\* shutil.copy fails (no such directory, no room): an OSError leaves
\* korrect_database before the catalog is opened
korrect_database_backup_fails ==
    /\ cli.status = "running"
    /\ cli.command = "korrect-komga"
    /\ pc = "idle"
    /\ runs = <<>>
    /\ Truthy(cli.args.backup)
    /\ Aborted(db, "OSError")

\* the catalog cannot be opened or read (no such file, no database): the
\* query raises an OperationalError
korrect_database_open_fails ==
    /\ cli.status = "running"
    /\ pc = "open"
    /\ Aborted(db, "OperationalError")

\* input() finds the standard input closed: the EOFError is no ValueError
\* and leaves the loop and korrect_database
korrect_database_abort ==
    /\ cli.status = "running"
    /\ pc = "loop"
    /\ idx <= NumSeries
    /\ \E r \in BatchResponses :
          make_korrection(Loaded(idx), yes, r).prompts > 0
    /\ Aborted(Rollback(db, session), "EOFError")

\* handle_korrect_komga, after korrect_database has returned: under -o,
\* korrect_database_oneshots, on the series its query returns
handle_korrect_oneshots ==
    /\ cli.status = "running"
    /\ cli.command = "korrect-komga"
    /\ cli.args.korrect_oneshots
    /\ pc = "idle"
    /\ runs # <<>>
    /\ ended = <<>>
    /\ Begin("korrect_database_oneshots", cli.args.dry_run,
             SelectSeq([i \in 1..NumSeries |-> i], LAMBDA i : db[i].oneshot))

\* handle_korrect_comic_info: korrect_comic_info_path on the directory
handle_korrect_comic_info ==
    /\ cli.status = "running"
    /\ cli.command = "korrect-comic-info"
    /\ ended = <<>>
    /\ Begin("korrect_comic_info_path", cli.args.dry_run,
             SelectSeq([p \in Paths |-> p], LAMBDA p : exists(fs[p])))

\* main, after the handler has returned or an exception has left it: the
\* exception that left the last command on the archives is logged; main
\* returns
main_return ==
    /\ cli.status = "running"
    /\ job = NoJob
    /\ IF cli.command = "korrect-komga"
       THEN /\ pc = "idle"
            /\ runs # <<>>
            /\ cli.args.korrect_oneshots => ended # <<>>
       ELSE ended # <<>>
    /\ LET escaped == IF ended # <<>> /\ ended[1].status = "raised"
                      THEN ended[1].log[Len(ended[1].log)].type
                      ELSE ""
       IN  cli' = Exited(cli, escaped, <<>>, ExitStatus(escaped))
    /\ UNCHANGED call_vars
    /\ UNCHANGED batch_vars
    /\ UNCHANGED archive_vars
    /\ UNCHANGED komga

\* the rows of the catalogs a command line is given: series i is an ordinary
\* series or a one-shot whose first issue is dated, a one-shot locked by the
\* user, or a series without books whose name holds a year
CliRow(i, kind) ==
    IF kind = "undated"
    THEN [name |-> <<"F", "o", "o", " ", "v", "1", " ", "(", "1", "9", "9", "9", ")">>,
          title |-> <<"F", "o", "o">>,
          title_lock |-> FALSE,
          oneshot |-> FALSE,
          books |-> <<>>]
    ELSE [LibraryRow(i, kind # "series", TRUE) EXCEPT
              !.title_lock = (kind = "locked oneshot")]

\* before the command line: the catalog, and the archives of the library,
\* at each path none or one whose Title is to be corrected
InitCli ==
    /\ \E k \in [1..NumSeries -> {"series", "oneshot", "locked oneshot", "undated"}],
          f \in [Paths ->
                  { NoFile,
                    Zip(<<[name |-> "a.jpg", data |-> [bytes |-> "x"]],
                          [name |-> "ComicInfo.xml", data |-> Xml(BazRoot)]>>,
                        <<>>) }] :
          /\ BatchAtRest([i \in 1..NumSeries |-> CliRow(i, k[i])])
          /\ ArchivesAtRest(f)
    /\ NoCallOn(PlainSeries)

NextCli ==
    \/ main
    \/ handle_korrect_komga
    \/ korrect_database_backup_fails
    \/ korrect_database_begin
    \/ korrect_database_open_fails
    \/ korrect_database_series
    \/ korrect_database_abort
    \/ korrect_database_end
    \/ handle_korrect_oneshots
    \/ handle_korrect_comic_info
    \/ korrect_comic_info
    \/ korrect_comic_info_database
    \/ korrect_comic_info_open
    \/ korrect_comic_info_write
    \/ main_return

SpecCli ==
    InitCli /\ [][NextCli]_vars

(***************************************************************************)
(* The raw-SQL batch (korrector.py): korrect_all reads the catalog through *)
(* a sqlite3 cursor and, for each series, builds an UPDATE statement as a  *)
(* text (make_sql_korrection, make_sql_korrection_oneshot) that the cursor *)
(* executes; the changes are committed after the loop.                     *)
(***************************************************************************)
\* " ".join(sql_cmd.split()): the characters of the words are kept, and
\* of each run of separators between two words one place, for a space
format_sql(sql_cmd) ==
    LET word(i) == sql_cmd[i] \notin {" ", "\n", "\t"}
        kept == SelectSeq([i \in 1..Len(sql_cmd) |-> i],
                          LAMBDA i : \/ word(i)
                                     \/ /\ i > 1
                                        /\ word(i - 1)
                                        /\ \E j \in (i + 1)..Len(sql_cmd) : word(j))
    IN  [k \in 1..Len(kept) |->
            IF word(kept[k]) THEN sql_cmd[kept[k]] ELSE " "]

\* re.sub(r"'", r"''", title)
RECURSIVE EscapeQuotes(_)
EscapeQuotes(title) ==
    IF title = <<>>
    THEN <<>>
    ELSE (IF Head(title) = "'" THEN <<"'", "'">> ELSE <<Head(title)>>)
            \o EscapeQuotes(Tail(title))

\* the id of series i
SeriesId(i) ==
    <<PathChars[i]>>

\* the lines of the f-string of the UPDATE statement
UpdateLine ==
    <<"U", "P", "D", "A", "T", "E", " ", "s", "e", "r", "i", "e", "s",
      "_", "m", "e", "t", "a", "d", "a", "t", "a">>

SetLine ==
    <<"S", "E", "T", " ", "t", "i", "t", "l", "e", " ", "=", " ", "'">>

WhereLine ==
    <<"W", "H", "E", "R", "E", " ", "s", "e", "r", "i", "e", "s", "_",
      "i", "d", " ", "i", "s", " ">>

\* the statement as the f-string gives it, around title and series_id, the
\* id between quotes q
UpdateStatement(title, series_id, q) ==
    LET Indent == <<"\n", " ", " ", " ", " ", " ", " ", " ", " ">>
    IN
    Indent \o UpdateLine \o Indent \o SetLine \o title \o <<"'">>
        \o Indent \o WhereLine \o <<q>> \o series_id \o <<q>> \o Indent

\* sqlite reads a string literal of s from position i, past the opening
\* quote: two quotes in a row are one quote of the value, one quote ends it
RECURSIVE ReadLiteral(_, _, _)
ReadLiteral(s, i, acc) ==
    IF i > Len(s)
    THEN [ok |-> FALSE, value |-> acc, rest |-> <<>>]
    ELSE IF s[i] = "'"
         THEN IF i < Len(s) /\ s[i + 1] = "'"
              THEN ReadLiteral(s, i + 2, Append(acc, "'"))
              ELSE [ok |-> TRUE, value |-> acc, rest |-> SubSeq(s, i + 1, Len(s))]
         ELSE ReadLiteral(s, i + 1, Append(acc, s[i]))

\* cur.execute(sql_cmd) on the titles of the connection: the statement is
\* parsed and the title of the series it names is set; a text that is no
\* such statement is an error
execute(sql_cmd, titles) ==
    LET head == UpdateLine \o <<" ">> \o SetLine
        lit == ReadLiteral(sql_cmd, Len(head) + 1, <<>>)
        named == { i \in 1..NumSeries :
                     \E q \in {"'", "\""} :
                        lit.rest = <<" ">> \o WhereLine \o <<q>> \o SeriesId(i) \o <<q>> }
    IN  IF /\ Len(sql_cmd) >= Len(head)
           /\ SubSeq(sql_cmd, 1, Len(head)) = head
           /\ lit.ok
           /\ named # {}
        THEN [ok |-> TRUE,
              titles |-> [i \in 1..NumSeries |->
                             IF i \in named THEN lit.value ELSE titles[i]]]
        ELSE [ok |-> FALSE, titles |-> titles]

\* get_release_year of korrector.py: the year of a one-shot is looked for
\* in its name; else the release date of the book numbered '1' is split,
\* and without such a book the name is searched and the operator asked
sql_get_release_year(s, response) ==
    IF s.oneshot
    THEN IF YearSearch(s.name) = <<>>
         THEN Raises("ValueError", <<>>)
         ELSE Returns(YearSearch(s.name)[1])
    ELSE LET first == FirstIssue(s.books)
         IN  IF first # <<>>
             THEN IF first[1].release_date = None
                  THEN Raises("AttributeError", <<>>)
                  ELSE Returns(SplitFirst(first[1].release_date, "-"))
             ELSE IF YearSearch(s.name) = <<>>
                  THEN Raises("AttributeError", <<>>)
                  ELSE Returns(IF response # <<>>
                               THEN response
                               ELSE YearSearch(s.name)[1])

\* the two functions return None when there is nothing to correct
NoStatement ==
    Returns([statement |-> None])

\* what the two functions return with the statement: the title before and
\* after the quotes are doubled
Statement(title, q, i) ==
    Returns([title |-> title,
             value |-> EscapeQuotes(title),
             statement |-> format_sql(UpdateStatement(EscapeQuotes(title),
                                                      SeriesId(i), q))])

\* make_sql_korrection for series i, s being its row
make_sql_korrection(s, i, response) ==
    IF AlreadyCorrect(s.title)
    THEN NoStatement
    ELSE LET year == sql_get_release_year(s, response)
         IN  IF year.raised
             THEN IF year.type = "AttributeError" THEN NoStatement ELSE year
             ELSE Statement(NewTitle(s.title, year.value), "\"", i)

\* .cdata of an element: its text, "" for an element without text
cdata(elem) ==
    IF elem[1] = None THEN <<>> ELSE elem[1]

\* get_title_comic_info: None for a locked series, a missing archive or an
\* archive without ComicInfo.xml, else "<Series> (<Year>)" of the document
get_title_comic_info(s, files) ==
    IF s.title_lock
    THEN Returns(None)
    ELSE IF s.books = <<>>
         THEN Raises("TypeError", <<>>)
    ELSE LET file == files[s.books[1].url]
         IN  IF ~exists(file)
             THEN Returns(None)
             ELSE IF file.kind # "zip"
                  THEN Raises("BadZipFile", <<>>)
             ELSE IF "ComicInfo.xml" \notin {file.entries[k].name : k \in 1..Len(file.entries)}
                  THEN Returns(None)
             ELSE LET bytes == read(file, "ComicInfo.xml")
                  IN  IF ~wellformed(bytes)
                      THEN Raises("SAXParseException", <<>>)
                      ELSE LET info == parse(bytes)
                           IN  IF find(info, "Series") = <<>> \/ find(info, "Year") = <<>>
                               THEN Raises("AttributeError", <<>>)
                               ELSE Returns(cdata(find(info, "Series")) \o <<" ", "(">>
                                               \o cdata(find(info, "Year")) \o <<")">>)

\* make_sql_korrection_oneshot for series i
make_sql_korrection_oneshot(s, i, files, response) ==
    LET year == sql_get_release_year(s, response)
    IN  IF year.raised
        THEN IF year.type = "ValueError" THEN NoStatement ELSE year
        ELSE LET title == get_title_comic_info(s, files)
             IN  IF title.raised
                 THEN title
                 ELSE IF ~Truthy(title.value) \/ title.value = s.title
                      THEN NoStatement
                      ELSE Statement(title.value, "'", i)

\* korrect_all is called, once: the backup if a backup_path is given, then
\* the connection to the catalog file
korrect_all_begin ==
    /\ pc = "idle"
    /\ runs = <<>>
    /\ \E d \in BOOLEAN, b \in BackupPaths :
          /\ dry_run' = d
          /\ backup_path' = b
          /\ backups' = IF Truthy(b) THEN backup(db, backups) ELSE backups
    /\ session' = StoredTitles(db)
    /\ evaluated' = <<>>
    /\ idx' = 1
    /\ pc' = "sql"
    /\ UNCHANGED <<db, yes, runs>>
    /\ UNCHANGED call_vars
    /\ UNCHANGED archive_vars
    /\ UNCHANGED <<cli, komga>>

\* korrect_all has ended: by its return, or by the exception raised
SqlRun(after, log, raised) ==
    [dry_run |-> dry_run, backup_path |-> backup_path,
     before |-> StoredTitles(db), after |-> after, evaluated |-> log,
     copies |-> Len(backups),
     returned |-> IF raised = "" THEN CompletionSummary ELSE "",
     raised |-> raised]

\* one turn of the loop of korrect_all: the statement for the next series,
\* one-shot or not, executed unless dry_run; an exception ends korrect_all
\* without a commit
korrect_all_series ==
    /\ pc = "sql"
    /\ idx <= NumSeries
    /\ \E r \in BatchResponses :
          LET s == Loaded(idx)
              sql_cmd == IF s.oneshot
                         THEN make_sql_korrection_oneshot(s, idx, fs, r)
                         ELSE make_sql_korrection(s, idx, r)
              done == IF sql_cmd.raised \/ sql_cmd.value.statement = None \/ dry_run
                      THEN [ok |-> TRUE, titles |-> session]
                      ELSE execute(sql_cmd.value.statement, session)
              log == Append(evaluated, [series |-> idx, raised |-> sql_cmd.raised,
                                        value |-> sql_cmd.value])
          IN  IF sql_cmd.raised \/ ~done.ok
              THEN /\ runs' = Append(runs,
                                     SqlRun(StoredTitles(db), log,
                                            IF sql_cmd.raised THEN sql_cmd.type
                                            ELSE "OperationalError"))
                   /\ session' = StoredTitles(db)
                   /\ evaluated' = <<>>
                   /\ pc' = "idle"
                   /\ idx' = 0
                   /\ dry_run' = FALSE
                   /\ backup_path' = <<>>
              ELSE /\ session' = done.titles
                   /\ evaluated' = log
                   /\ idx' = idx + 1
                   /\ UNCHANGED <<pc, dry_run, backup_path, runs>>
    /\ UNCHANGED <<db, yes, backups>>
    /\ UNCHANGED call_vars
    /\ UNCHANGED archive_vars
    /\ UNCHANGED <<cli, komga>>

\* after the loop: con.commit() unless dry_run, and the return
korrect_all_end ==
    /\ pc = "sql"
    /\ idx > NumSeries
    /\ db' = IF dry_run THEN db ELSE Commit(db, session)
    /\ runs' = Append(runs, SqlRun(StoredTitles(db'), evaluated, ""))
    /\ session' = StoredTitles(db')
    /\ evaluated' = <<>>
    /\ pc' = "idle"
    /\ idx' = 0
    /\ dry_run' = FALSE
    /\ backup_path' = <<>>
    /\ UNCHANGED <<yes, backups>>
    /\ UNCHANGED call_vars
    /\ UNCHANGED archive_vars
    /\ UNCHANGED <<cli, komga>>

\* the files: none, or the archive of a one-shot, its Series text with a
\* quote
SqlFiles ==
    { NoFile }
        \cup { Zip(<<[name |-> "ComicInfo.xml",
                      data |-> Xml([Series |-> <<t>>, Title |-> <<t>>,
                                    Year |-> << <<"2", "0", "0", "1">> >>])]>>, <<>>) :
                 t \in { <<"O", "'", "B">> } }

\* the rows: a series with a dated first issue, its title without quote,
\* with one, with two in a row or with two spaces in a row, or locked; a one-shot
\* whose name holds its year, locked or not, with its archive at path i; a
\* series without books whose name holds a year or none
SqlRows(i) ==
    { [LibraryRow(i, FALSE, TRUE) EXCEPT !.title = t] :
        t \in { <<"F", "o", "o">>, <<"O", "'", "B">>, <<"'", "'">>,
                <<"A", " ", " ", "B">> } }
        \cup { [LibraryRow(i, FALSE, TRUE) EXCEPT !.title_lock = TRUE] }
        \cup { [LibraryRow(i, TRUE, TRUE) EXCEPT
                    !.name = <<"B", " ", "(", "2", "0", "0", "1", ")">>,
                    !.title = <<"B", "a", "z">>,
                    !.title_lock = l] : l \in BOOLEAN }
        \cup { [LibraryRow(i, FALSE, FALSE) EXCEPT !.name = n] :
                 n \in CatalogNames }

InitSql ==
    /\ \E c \in [1..NumSeries -> UNION {SqlRows(i) : i \in 1..NumSeries}],
          f \in [Paths -> SqlFiles] :
          /\ \A i \in 1..NumSeries : c[i] \in SqlRows(i)
          /\ BatchAtRest(c)
          /\ ArchivesAtRest(f)
    /\ NoCallOn(PlainSeries)

NextSql ==
    \/ korrect_all_begin
    \/ korrect_all_series
    \/ korrect_all_end

SpecSql ==
    InitSql /\ [][NextSql]_vars

(***************************************************************************)
(* Krakoa (krakoa.py): the client of the Komga REST API. The server holds  *)
(* the list of its series in pages and answers a request with a JSON body, *)
(* with an HTTP error status, or not at all.                               *)
(***************************************************************************)
\* the most pages the list of series is served in
MaxListPages == 2

\* the servers: the pages of the list, each with no item of content[] or one, and how
\* the server answers: with the body, with an error status, not in ten
\* seconds, or the connection fails
Servers ==
    LET items ==
            { [id |-> "1", name |-> "A", oneshot |-> FALSE, titleLock |-> FALSE],
              [id |-> "2", name |-> "B", oneshot |-> TRUE, titleLock |-> TRUE] }
    IN
    [pages : UNION { [1..n -> { <<>> } \cup { <<s>> : s \in items }] :
                       n \in 1..MaxListPages },
     answer : { "ok", "status 500", "timeout", "connection error" }]

\* the body of the paged list response for page number page (from 0): the
\* items of the page, and whether it is the last
ListBody(server, page) ==
    [content |-> IF page + 1 \in 1..Len(server.pages)
                 THEN server.pages[page + 1]
                 ELSE <<>>,
     last |-> page + 1 >= Len(server.pages)]

\* requests.get / requests.post with timeout=10, then raise_for_status():
\* the exception raised ("" when none)
RequestError(server) ==
    IF server.answer = "timeout" THEN "Timeout"
    ELSE IF server.answer = "connection error" THEN "ConnectionError"
    ELSE IF server.answer = "status 500" THEN "HTTPError"
    ELSE ""

\* make_request letting the ValueError of an unknown method fall into the
\* handlers with the errors of the request
make_request_catching_all(server, method, page) ==
    IF method \notin {"GET", "POST"}
    THEN Returns(None)
    ELSE IF RequestError(server) # ""
         THEN Returns(None)
         ELSE Returns(ListBody(server, page))

\* make_request(method, url, headers, data), the url asking for a page of
\* the list: an unknown method is a ValueError, which neither except clause
\* catches; a Timeout and any other RequestException (the exceptions of
\* requests all are) are logged and None is returned; else resp.json()
make_request(server, method, page) ==
    IF method \notin {"GET", "POST"}
    THEN Raises("ValueError", <<>>)
    ELSE IF RequestError(server) = "Timeout"
         THEN Returns(None)
         ELSE IF RequestError(server) \in {"Timeout", "ConnectionError",
                                            "HTTPError", "RequestException"}
              THEN Returns(None)
              ELSE Returns(ListBody(server, page))

\* get_all_series(page, size): it calls self.make_request(url, self.headers),
\* two arguments for the three parameters without default, which Python
\* refuses with a
\* TypeError before make_request runs; had the call been made, .json() of
\* the dict or None that make_request returns is an AttributeError
get_all_series(server, page, size) ==
    LET arguments == <<"url", "headers">>
        required == <<"method", "url", "headers">>
    IN  IF Len(arguments) < Len(required)
        THEN Raises("TypeError", <<>>)
        ELSE Raises("AttributeError", <<>>)

\* the default of the size parameter of get_all_series
PageSize ==
    100

\* make_request is called
CallMakeRequest ==
    /\ called.fn = "none"
    /\ \E m \in { "GET", "POST", "PUT" }, p \in 0..MaxListPages :
          /\ result' = make_request(komga, m, p)
          /\ called' = [fn |-> "make_request", method |-> m, page |-> p]
    /\ UNCHANGED <<series, given, komga>>
    /\ UNCHANGED batch_vars
    /\ UNCHANGED archive_vars
    /\ UNCHANGED cli

\* get_all_series is called: with its defaults, or for a page
CallGetAllSeries ==
    /\ called.fn = "none"
    /\ \E p \in 0..MaxListPages :
          /\ result' = get_all_series(komga, p, PageSize)
          /\ called' = [fn |-> "get_all_series", method |-> "GET", page |-> p]
    /\ UNCHANGED <<series, given, komga>>
    /\ UNCHANGED batch_vars
    /\ UNCHANGED archive_vars
    /\ UNCHANGED cli

InitKrakoa ==
    /\ komga \in Servers
    /\ fs = NoFiles
    /\ job = NoJob
    /\ patch = NoPatch
    /\ ended = <<>>
    /\ cli = NoCli
    /\ BatchAtRest([i \in 1..NumSeries |-> PlainSeries])
    /\ NoCallOn(PlainSeries)

NextKrakoa ==
    \/ CallMakeRequest
    \/ CallGetAllSeries

SpecKrakoa ==
    InitKrakoa /\ [][NextKrakoa]_vars

(***************************************************************************)
(* Properties.                                                             *)
(***************************************************************************)
\* both parenthesis characters occur in text t
HasBothParens(t) ==
    /\ \E i \in 1..Len(t) : t[i] = "("
    /\ \E i \in 1..Len(t) : t[i] = ")"

\* book b is numbered "1"
NumberedOne(b) ==
    /\ b.book_metadata # <<>>
    /\ b.book_metadata[1].number = "1"

\* text d is a date YYYY-MM-DD and nothing else: ^\d{4}-\d{2}-\d{2}$
FullDate(d) ==
    /\ Len(d) = 10
    /\ \A i \in 1..10 : IF i \in {5, 8} THEN d[i] = "-" ELSE d[i] \in Digits

\* text y is four decimal digits
FourDigits(y) ==
    /\ Len(y) = 4
    /\ \A i \in 1..4 : y[i] \in Digits

\* C1: lock invariant of the batch. In every completed korrect_database run,
\* dry or not, in yes mode or not, the stored title of every series whose
\* title_lock is set is after the run what it was before it.
C1_LockedTitlesKept ==
    \A k \in 1..Len(runs) :
        \A i \in 1..NumSeries :
            db[i].title_lock => runs[k].after[i] = runs[k].before[i]

\* C1 happens: a run that was no dry run has committed a correction of a
\* series while a locked series, whose title holds no parentheses and whose
\* first issue gives a year, kept its title.
C1_Witness ==
    \E k \in 1..Len(runs) :
        /\ ~runs[k].dry_run
        /\ \E i \in 1..NumSeries :
              /\ db[i].title_lock
              /\ ~HasBothParens(runs[k].before[i])
              /\ \E b \in 1..Len(db[i].books) :
                    /\ NumberedOne(db[i].books[b])
                    /\ FullDate(db[i].books[b].book_metadata[1].release_date)
        /\ \E j \in 1..NumSeries : runs[k].after[j] # runs[k].before[j]

\* C2 as claimed: of any two korrect_database runs in a row, the second
\* leaves every stored title as it was after the first.
C2_SecondRunChangesNothing ==
    \A k \in 1..(Len(runs) - 1) :
        runs[k + 1].after = runs[k].after

\* C2, amended: a series whose title make_korrection has set in the open
\* Session makes a second make_korrection raise "already correct", without a
\* prompt, whatever the mode and the response; and of two runs in a row the
\* second leaves every stored title as it was after the first, unless the
\* first was a dry run and the second is not.
C2_Idempotent ==
    /\ \A i \in 1..NumSeries :
          (pc = "loop" /\ i < idx /\ session[i] # db[i].title)
              => \A y \in BOOLEAN, r \in Responses :
                    LET again == make_korrection(Loaded(i), y, r)
                    IN  /\ again.raised
                        /\ again.prompts = 0
                        /\ again.value = AlreadyCorrectMsg(db[i].name, session[i])
                        /\ TitleAfter(Loaded(i), again) = session[i]
    /\ \A k \in 1..(Len(runs) - 1) :
          (~runs[k].dry_run \/ runs[k + 1].dry_run)
              => runs[k + 1].after = runs[k].after

\* C2 happens: two runs in a row, neither a dry run, the first of which
\* stored a corrected title.
C2_Witness ==
    /\ Len(runs) >= 2
    /\ ~runs[1].dry_run
    /\ ~runs[2].dry_run
    /\ runs[1].after # runs[1].before

\* book b of the books is the one numbered "1" that comes first
FirstNumberedOne(books, b) ==
    /\ NumberedOne(books[b])
    /\ \A a \in 1..(b - 1) : ~NumberedOne(books[a])

\* a parenthesised group of four digits starts at position i of text t
HoldsYearAt(t, i) ==
    /\ i + 5 <= Len(t)
    /\ t[i] = "("
    /\ t[i + 5] = ")"
    /\ FourDigits(SubSeq(t, i + 1, i + 4))

\* the series of scenario A: name "Foo v1 (1999)", title "Foo", one book
\* numbered "1" released 1999-01-01
ScenarioA ==
    [name |-> <<"F", "o", "o", " ", "v", "1", " ", "(", "1", "9", "9", "9", ")">>,
     title |-> <<"F", "o", "o">>,
     title_lock |-> FALSE,
     books |-> <<[book_metadata |->
                    <<[number |-> "1",
                       release_date |->
                           <<"1", "9", "9", "9", "-", "0", "1", "-", "0", "1">>]>>]>>]

\* C3: for an unlocked series whose title does not hold both parentheses and
\* whose year resolves to y, make_korrection stores the current title followed
\* by " (y)"; with a first issue dated YYYY-MM-DD the new title is made of the
\* current title and that date alone, whatever the name; scenario A gives
\* "Foo (1999)".
C3_NewTitleFromCurrentTitle ==
    (called.fn = "make_korrection" /\ ~given.title_lock /\ ~HasBothParens(given.title))
        => /\ LET y == get_release_year(given, called.yes, called.response)
              IN  ~y.raised
                    => /\ ~result.raised
                       /\ series.title = given.title \o <<" ", "(">> \o y.value \o <<")">>
           /\ \A b \in 1..Len(given.books) :
                 (/\ FirstNumberedOne(given.books, b)
                  /\ FullDate(given.books[b].book_metadata[1].release_date))
                     => series.title =
                            given.title \o <<" ", "(">>
                                \o SubSeq(given.books[b].book_metadata[1].release_date, 1, 4)
                                \o <<")">>
           /\ given = ScenarioA
                 => series.title = <<"F", "o", "o", " ", "(", "1", "9", "9", "9", ")">>

\* C3 happens: make_korrection was applied to the series of scenario A and
\* stored a new title.
C3_Witness ==
    /\ called.fn = "make_korrection"
    /\ given = ScenarioA
    /\ ~result.raised
    /\ series.title # given.title

\* C4: a title that holds a "(" and a ")" anywhere makes make_korrection
\* raise "already correct" and leave the title, with no year resolved: the
\* outcome is the same whatever the books, the name and the mode, and no
\* prompt is issued.
C4_AlreadyCorrectHeuristic ==
    (called.fn = "make_korrection" /\ HasBothParens(given.title))
        => /\ result.raised
           /\ result.value = AlreadyCorrectMsg(given.name, given.title)
           /\ result.prompts = 0
           /\ series.title = given.title

\* C4 happens: make_korrection was called without yes on a series whose title
\* holds ")" before "(" and no year, and whose year would have been guessed
\* from its name and put to the operator.
C4_Witness ==
    /\ called.fn = "make_korrection"
    /\ ~called.yes
    /\ given.title = <<")", "F", "(">>
    /\ \A b \in 1..Len(given.books) : ~NumberedOne(given.books[b])
    /\ \E i \in 1..Len(given.name) : HoldsYearAt(given.name, i)
    /\ result.raised

\* C5 as claimed: every series whose title_lock is set makes make_korrection
\* raise the locked-title error, whatever its title.
C5_LockedAlwaysLockedError ==
    (called.fn = "make_korrection" /\ given.title_lock)
        => /\ result.raised
           /\ result.value = LockedMsg(given.name)

\* C5, amended: a series whose title_lock is set makes make_korrection raise
\* and keep the title, without a prompt: the locked-title error when the
\* title does not hold both parentheses, the already-correct error when it
\* does.
C5_LockedRaises ==
    (called.fn = "make_korrection" /\ given.title_lock)
        => /\ result.raised
           /\ result.prompts = 0
           /\ series.title = given.title
           /\ result.value =
                 IF HasBothParens(given.title)
                 THEN AlreadyCorrectMsg(given.name, given.title)
                 ELSE LockedMsg(given.name)

\* C5 happens: make_korrection raised the locked-title error for a locked
\* series whose title holds no parentheses and whose name holds no year.
C5_Witness ==
    /\ called.fn = "make_korrection"
    /\ given.title_lock
    /\ ~HasBothParens(given.title)
    /\ given.books = <<>>
    /\ \A i \in 1..Len(given.name) : ~HoldsYearAt(given.name, i)
    /\ result = Raise(LockedMsg(given.name), 0)

\* C6 as claimed: whenever some book of the series is numbered "1" and has a
\* date YYYY-MM-DD, get_release_year returns the year of that date, without a
\* prompt.
C6_AnyIssueOneDecides ==
    called.fn = "get_release_year"
        => \A b \in 1..Len(given.books) :
              (/\ NumberedOne(given.books[b])
               /\ FullDate(given.books[b].book_metadata[1].release_date))
                  => /\ ~result.raised
                     /\ result.value =
                           SubSeq(given.books[b].book_metadata[1].release_date, 1, 4)
                     /\ result.prompts = 0

\* C6, amended: whenever the first book numbered "1", in the order of
\* series.books, has a date YYYY-MM-DD, get_release_year returns the four
\* characters of that date's year, not the year of the name, without a prompt.
C6_FirstIssueAuthoritative ==
    called.fn = "get_release_year"
        => \A b \in 1..Len(given.books) :
              (/\ FirstNumberedOne(given.books, b)
               /\ FullDate(given.books[b].book_metadata[1].release_date))
                  => /\ ~result.raised
                     /\ result.value =
                           SubSeq(given.books[b].book_metadata[1].release_date, 1, 4)
                     /\ result.prompts = 0

\* C6 happens: get_release_year was called without yes on a series named with
\* the year 1999 whose first issue is dated 2005, and returned 2005.
C6_Witness ==
    /\ called.fn = "get_release_year"
    /\ ~called.yes
    /\ HoldsYearAt(given.name, 8)
    /\ SubSeq(given.name, 9, 12) = <<"1", "9", "9", "9">>
    /\ Len(given.books) > 0
    /\ FirstNumberedOne(given.books, 1)
    /\ given.books[1].book_metadata[1].release_date =
          <<"2", "0", "0", "5", "-", "0", "6", "-", "1", "5">>
    /\ result = Return(<<"2", "0", "0", "5">>, 0)

\* C7 as claimed, for the first book numbered "1": when its release_date is
\* absent, blank or anything but a date YYYY-MM-DD in full, get_release_year
\* raises the invalid-release-date error.
C7_InvalidDateRaises ==
    called.fn = "get_release_year"
        => \A b \in 1..Len(given.books) :
              (/\ FirstNumberedOne(given.books, b)
               /\ ~FullDate(given.books[b].book_metadata[1].release_date))
                  => /\ result.raised
                     /\ result.value =
                           InvalidReleaseDateMsg(given.name,
                               given.books[b].book_metadata[1].release_date)

EndsInYear(t) ==
    /\ Len(t) >= 7
    /\ t[Len(t) - 6] = " "
    /\ HoldsYearAt(t, Len(t) - 5)

\* C10 as claimed: whatever get_release_year returns is four decimal digits,
\* and every title make_korrection stores ends in " (dddd)".
C10_FourDigitYear ==
    /\ (called.fn = "get_release_year" /\ ~result.raised)
          => FourDigits(result.value)
    /\ (called.fn = "make_korrection" /\ ~result.raised)
          => EndsInYear(series.title)

\* the failures of make_korrection that the batch recovers from, for the
\* series of name n and stored title t
RecoverableErrors(n, t, books) ==
    { NoYearFoundMsg(n), AlreadyCorrectMsg(n, t), LockedMsg(n) }
        \cup { InvalidReleaseDateMsg(n, books[b].book_metadata[1].release_date) :
                 b \in { c \in 1..Len(books) : NumberedOne(books[c]) } }

CopiesBefore(k) ==
    IF k = 1 THEN 0 ELSE runs[k - 1].copies

\* C13 as claimed: every korrect_database run that committed a title change
\* has copied the catalog file first, as it was before the run.
C13_EveryCommittingRunBackedUp ==
    \A k \in 1..Len(runs) :
        runs[k].after # runs[k].before =>
            /\ runs[k].copies = CopiesBefore(k) + 1
            /\ StoredTitles(backups[runs[k].copies]) = runs[k].before

\* C13, amended: a korrect_database run given a backup_path copies the
\* catalog file before the catalog is opened and before any title is
\* changed, so that the copy holds the titles as they were before the run,
\* dry run or not; a run given no backup_path (the default) makes no copy,
\* whatever it commits.
C13_BackupWhenAsked ==
    /\ (pc \in {"open", "loop"} /\ Truthy(backup_path)) =>
          /\ backups # <<>>
          /\ backups[Len(backups)] = db
    /\ pc = "open" => session = StoredTitles(db)
    /\ \A k \in 1..Len(runs) :
          IF Truthy(runs[k].backup_path)
          THEN /\ runs[k].copies = CopiesBefore(k) + 1
               /\ StoredTitles(backups[runs[k].copies]) = runs[k].before
          ELSE runs[k].copies = CopiesBefore(k)

\* C13 happens: a run given a backup_path has committed a title change, and
\* the copy it made holds the title from before.
C13_Witness ==
    \E k \in 1..Len(runs) :
        /\ Truthy(runs[k].backup_path)
        /\ ~runs[k].dry_run
        /\ runs[k].after # runs[k].before
        /\ StoredTitles(backups[runs[k].copies]) # StoredTitles(db)

\* C12: dry run suppresses every write. While a command given dry_run is at
\* work on the archives and after it has ended, returned or not, every file
\* and every stored title is what it was when the command began; and a
\* korrect_database run given dry_run leaves every stored title as it was.
C12_DryRunWritesNothing ==
    /\ \A k \in 1..Len(runs) :
          runs[k].dry_run =>
              /\ runs[k].after = runs[k].before
              /\ StoredTitles(db) = runs[k].before
    /\ (job # NoJob /\ job.dry_run) =>
          /\ fs = job.before
          /\ StoredTitles(db) = job.titles
    /\ (ended # <<>> /\ ended[1].dry_run) =>
          /\ ended[1].after = ended[1].before
          /\ fs = ended[1].before
          /\ StoredTitles(db) = ended[1].titles

\* C12 happens: korrect_database_oneshots given dry_run has returned after
\* it decided the correction of a one-shot, whose archive still holds the
\* Title to correct.
C12_Witness ==
    /\ ended # <<>>
    /\ ended[1].fn = "korrect_database_oneshots"
    /\ ended[1].dry_run
    /\ ended[1].status = "returned"
    /\ \E n \in 1..Len(ended[1].log) :
          /\ ~ended[1].log[n].raised
          /\ ended[1].log[n].value
                = <<"B", "a", "z", " ", "(", "2", "0", "0", "1", ")">>
          /\ fs[ended[1].log[n].path].kind = "zip"
          /\ \E e \in 1..Len(fs[ended[1].log[n].path].entries) :
                /\ fs[ended[1].log[n].path].entries[e].name = "ComicInfo.xml"
                /\ fs[ended[1].log[n].path].entries[e].data.root.Title = <<Baz>>

\* the command that ended last is a call of korrect_comic_info that was no
\* dry run and returned, having written the archive at its path
Wrote ==
    /\ ended # <<>>
    /\ ended[1].fn = "korrect_comic_info"
    /\ ~ended[1].dry_run
    /\ ended[1].status = "returned"

\* the archive at the path of that call, before it and after it
OldCbz ==
    ended[1].before[ended[1].items[1]]

NewCbz ==
    ended[1].after[ended[1].items[1]]

\* the entries of archive a that are ComicInfo.xml, and the others, in order
ComicInfoEntries(a) ==
    SelectSeq(a.entries, LAMBDA e : e.name = "ComicInfo.xml")

OtherEntries(a) ==
    SelectSeq(a.entries, LAMBDA e : e.name # "ComicInfo.xml")

C15_OtherEntriesKept ==
    Wrote => OtherEntries(NewCbz) = OtherEntries(OldCbz)

\* C16 as claimed: the archive comment of every archive that
\* korrect_comic_info has patched is the comment of the original.
C16_CommentKept ==
    Wrote => NewCbz.comment = OldCbz.comment

\* file is the whole of old, or the whole of the archive korrect_comic_info
\* makes of old
OldOrNew(file, old, p) ==
    \/ file = old
    \/ /\ ~ReadComicInfo(old, p).raised
       /\ file = new_cbz_data(old, ReadComicInfo(old, p).value)

\* C17 as claimed: at every point of a call of korrect_comic_info, and after
\* it has ended, interrupted or not, the file at every path is the complete
\* original archive or the complete new one.
C17_AtomicReplace ==
    /\ job.fn = "korrect_comic_info" =>
          \A p \in Paths : OldOrNew(fs[p], job.before[p], p)
    /\ (ended # <<>> /\ ended[1].fn = "korrect_comic_info") =>
          \A p \in Paths : OldOrNew(ended[1].after[p], ended[1].before[p], p)

\* the error of the claim that file, at path p, calls for, if any: the
\* archive missing, its ComicInfo.xml missing, the Year missing, the Title
\* missing, the Title already the canonical one
ErrorCalledFor(file, p) ==
    IF file.kind = "absent"
    THEN <<Raises("FileNotFoundError", NoCbzMsg(PathText(p)))>>
    ELSE IF file.kind # "zip"
         THEN <<>>
         ELSE IF ComicInfoEntries(file) = <<>>
              THEN <<Raises("FileNotFoundError", NoComicInfoMsg(PathText(p)))>>
              ELSE LET xml == ComicInfoEntries(file)[Len(ComicInfoEntries(file))].data
                   IN  IF ~wellformed(xml)
                       THEN <<>>
                       ELSE IF xml.root.Year = <<>>
                            THEN <<Raises("ValueError", NoYearMsg(PathText(p)))>>
                            ELSE IF xml.root.Title = <<>>
                                 THEN <<Raises("ValueError", NoTitleMsg(PathText(p)))>>
                                 ELSE IF /\ xml.root.Series # <<>>
                                         /\ xml.root.Title[1]
                                               = Format(xml.root.Series[1]) \o <<" ", "(">>
                                                    \o Format(xml.root.Year[1]) \o <<")">>
                                      THEN <<Raises("ValueError",
                                                    ComicInfoCorrectMsg(PathText(p)))>>
                                      ELSE <<>>

\* C18: a call of korrect_comic_info on a path whose archive is missing, or
\* has no ComicInfo.xml, or whose document has no Year, no Title or the
\* canonical Title already, raises that error, dry run or not; and whenever
\* the call raises FileNotFoundError or ValueError the file at every path is
\* what it was before the call: none is changed and none is created.
C18_ErrorsLeaveFiles ==
    (ended # <<>> /\ ended[1].fn = "korrect_comic_info" /\ ended[1].status # "killed") =>
        /\ ErrorCalledFor(OldCbz, ended[1].items[1]) # <<>> =>
              /\ ended[1].status = "raised"
              /\ ended[1].log[1].raised
              /\ ended[1].log[1].type = ErrorCalledFor(OldCbz, ended[1].items[1])[1].type
              /\ ended[1].log[1].value = ErrorCalledFor(OldCbz, ended[1].items[1])[1].value
        /\ (/\ ended[1].status = "raised"
            /\ ended[1].log[1].type \in {"FileNotFoundError", "ValueError"}) =>
              /\ ErrorCalledFor(OldCbz, ended[1].items[1]) # <<>>
              /\ ended[1].after = ended[1].before

\* C18 happens (scenario F): a call that was no dry run has raised the
\* missing-Year error on an archive, which is as it was.
C18_Witness ==
    /\ ended # <<>>
    /\ ended[1].fn = "korrect_comic_info"
    /\ ~ended[1].dry_run
    /\ ended[1].status = "raised"
    /\ ended[1].log[1].value = NoYearMsg(PathText(ended[1].items[1]))
    /\ OldCbz.kind = "zip"
    /\ Len(OldCbz.entries) > 1
    /\ fs[ended[1].items[1]] = OldCbz

\* e is an application of korrect_comic_info: a call from outside that
\* returned, or raised one of its own errors
Application(e) ==
    /\ e # <<>>
    /\ e[1].fn = "korrect_comic_info"
    /\ \/ e[1].status = "returned"
       \/ /\ e[1].status = "raised"
          /\ e[1].log[1].type \in {"FileNotFoundError", "ValueError"}

\* a second application ends, on the path of the application before it
SecondApplication ==
    /\ Application(ended)
    /\ job # NoJob
    /\ job' = NoJob
    /\ Application(ended')
    /\ ended'[1].items = ended[1].items

\* C19 as claimed: of two applications of korrect_comic_info to an archive,
\* the second leaves the file as it was.
C19_SecondApplicationChangesNothing ==
    [][SecondApplication => ended'[1].after = ended'[1].before]_vars

\* C19, amended: a call on an archive whose Title is already the canonical
\* title raises already-correct and writes nothing; the archive that a call
\* has written is such an archive; and of two applications in a row to one
\* path the second leaves every file as it was, raising already-correct if
\* the first wrote the archive, unless the first was a dry run and the
\* second is not.
C19_Idempotent ==
    /\ [](Wrote =>
            ReadComicInfo(NewCbz, ended[1].items[1])
               = Raises("ValueError", ComicInfoCorrectMsg(PathText(ended[1].items[1]))))
    /\ []((/\ Application(ended)
           /\ OldCbz.kind = "zip"
           /\ ErrorCalledFor(OldCbz, ended[1].items[1])
                 = <<Raises("ValueError",
                            ComicInfoCorrectMsg(PathText(ended[1].items[1])))>>) =>
              /\ ended[1].status = "raised"
              /\ ended[1].after = ended[1].before)
    /\ [][(SecondApplication /\ (~ended[1].dry_run \/ ended'[1].dry_run)) =>
              /\ ended'[1].after = ended'[1].before
              /\ (ended[1].after # ended[1].before) =>
                    /\ ended'[1].status = "raised"
                    /\ ended'[1].log[1].value
                          = ComicInfoCorrectMsg(PathText(ended'[1].items[1]))]_vars

\* C19 happens: a call that was no dry run, on an archive that an earlier
\* call wrote (its ComicInfo.xml is as tostring writes it), has raised
\* already-correct and left the archive as it was.
C19_Witness ==
    /\ Application(ended)
    /\ ~ended[1].dry_run
    /\ ended[1].status = "raised"
    /\ ended[1].log[1].value = ComicInfoCorrectMsg(PathText(ended[1].items[1]))
    /\ ComicInfoEntries(OldCbz)[1].data.form = "lxml"
    /\ NewCbz = OldCbz

\* C20 as claimed: a loop over archives or one-shot series that was not
\* interrupted has gone through every item and returned, whatever failed on
\* the way.
C20_FailuresConfined ==
    (/\ ended # <<>>
     /\ ended[1].fn \in {"korrect_comic_info_path", "korrect_database_oneshots"}
     /\ ended[1].status # "killed") =>
        /\ ended[1].status = "returned"
        /\ Len(ended[1].log) = Len(ended[1].items)


\* C21: the command line ends with status 0 when the batch completes,
\* however many series were skipped, and with another status when the
\* catalog cannot be opened, the backup copy fails or an exception leaves
\* a handler.
C21_ExitStatus ==
    cli.status = "exited" /\ cli.command # "" =>
        IF cli.failure = ""
        THEN cli.exit_status = 0
        ELSE cli.exit_status # 0

\* C22: the stored title of a one-shot series is never changed by
\* korrect_database nor by the korrect-komga command; only the titles of
\* the other series are rewritten in the catalog.
C22_OneshotTitlesKept ==
    cli.status # "none" =>
        \A i \in 1..NumSeries : db[i].oneshot => db[i].title = cli.titles[i]

\* the stored titles after every correction the loop decided on titles
Decided(titles, log) ==
    [i \in 1..NumSeries |->
        IF \E k \in 1..Len(log) : log[k].series = i /\ ~log[k].raised
        THEN log[CHOOSE k \in 1..Len(log) : log[k].series = i /\ ~log[k].raised].value
        ELSE titles[i]]

\* C29: korrect_database stores the titles by the one commit after the last
\* series; a run that an error ends before the commit stores none, so that
\* until the commit and after a run that did not return the catalog holds
\* the titles it held, and after a run that returned it holds either every
\* correction the run decided or none.
C29_AllOrNothing ==
    /\ cli.status # "none" /\ runs = <<>> => StoredTitles(db) = cli.titles
    /\ \A k \in 1..Len(runs) :
          /\ Len(runs[k].evaluated) = NumSeries
          /\ \/ runs[k].after = runs[k].before
             \/ runs[k].after = Decided(runs[k].before, runs[k].evaluated)
          /\ StoredTitles(db) = runs[k].after

\* a run left by an error after it had decided a correction
C29_Witness ==
    /\ cli.status = "exited"
    /\ cli.failure = "EOFError"
    /\ \E k \in 1..Len(cli.evaluated) : ~cli.evaluated[k].raised
    /\ runs = <<>>
    /\ StoredTitles(db) = cli.titles

\* C30: the titles of the catalog are modified only under -d: a
\* korrect-komga command line without -d, with or without -o, leaves every
\* stored title as it was.
C30_DatabaseFlagGates ==
    cli.command = "korrect-komga" /\ ~cli.args.korrect_database =>
        StoredTitles(db) = cli.titles


\* the level the policy gives an item of an archive loop: info for a
\* correction, debug for an archive already correct, warning for any other
\* skip
ArchivePolicy(entry) ==
    IF ~entry.raised
    THEN "info"
    ELSE IF entry.value = ComicInfoCorrectMsg(PathText(entry.path))
         THEN "debug"
         ELSE "warning"

\* C23: in korrect_database, korrect_database_oneshots and
\* korrect_comic_info_path a correction is logged at info, a skip for a
\* missing or invalid datum at warning and an expected no-op (already
\* correct, locked) at debug, for every item.
C23_LogLevelPolicy ==
    /\ \A k \in 1..Len(runs) : \A e \in 1..Len(runs[k].evaluated) :
          LET entry == runs[k].evaluated[e]
          IN  korrect_database_level(entry) =
                 IF ~entry.raised
                 THEN "info"
                 ELSE IF \/ AlreadyCorrect(runs[k].before[entry.series])
                         \/ db[entry.series].title_lock
                      THEN "debug"
                      ELSE "warning"
    /\ \A j \in 1..Len(ended) : \A e \in 1..Len(ended[j].log) :
          LET entry == ended[j].log[e]
          IN  (entry.raised /\ Caught(ended[j].fn, entry.type)) =>
                 /\ ended[j].fn = "korrect_comic_info_path" =>
                       korrect_comic_info_path_level(entry) = ArchivePolicy(entry)
                 /\ ended[j].fn = "korrect_database_oneshots" =>
                       korrect_database_oneshots_level(entry) = ArchivePolicy(entry)


\* C25: korrect_database_oneshots leaves the archive of every one-shot
\* series whose title_lock is set as it was: the Title of its ComicInfo.xml
\* is not rewritten.
C25_LockCoversOneshots ==
    \A j \in 1..Len(ended) :
        ended[j].fn = "korrect_database_oneshots" =>
            \A i \in 1..NumSeries :
                (db[i].oneshot /\ db[i].title_lock /\ db[i].books # <<>>) =>
                    ended[j].after[db[i].books[1].url] =
                        ended[j].before[db[i].books[1].url]


\* the number of single quotes of a text
CountQuotes(s) ==
    Cardinality({i \in 1..Len(s) : s[i] = "'"})

\* the statements a run of korrect_all has built: the entries of its log
\* that hold one
Statements(run) ==
    { e \in 1..Len(run.evaluated) :
        /\ ~run.evaluated[e].raised
        /\ run.evaluated[e].value.statement # None }

\* the text between the quotes that open and close the title in an UPDATE
\* statement
BoundValue(statement) ==
    LET head == UpdateLine \o <<" ">> \o SetLine
        lit == ReadLiteral(statement, Len(head) + 1, <<>>)
    IN  SubSeq(statement, Len(head) + 1, Len(statement) - Len(lit.rest) - 1)

\* C24: for a corrected title with n single quotes, the value that
\* make_sql_korrection and make_sql_korrection_oneshot put in the UPDATE
\* statement has 2n of them, each quote of the title doubled, so that the
\* title stored by the statement is the corrected title.
C24_QuotesEscaped ==
    \A k \in 1..Len(runs) : \A e \in Statements(runs[k]) :
        LET built == runs[k].evaluated[e].value
            head == UpdateLine \o <<" ">> \o SetLine
            lit == ReadLiteral(built.statement, Len(head) + 1, <<>>)
        IN  /\ CountQuotes(BoundValue(built.statement)) = 2 * CountQuotes(built.title)
            /\ lit.ok
            /\ lit.value = built.title
            /\ (runs[k].raised = "" /\ ~runs[k].dry_run) =>
                  runs[k].after[runs[k].evaluated[e].series] = built.title

\* C28: korrect_all builds no UPDATE for a series whose title_lock is set,
\* one-shot or not: the title of every locked series is after a run what it
\* was before.
C28_LockedNeverUpdated ==
    \A k \in 1..Len(runs) :
        /\ \A e \in Statements(runs[k]) :
              ~db[runs[k].evaluated[e].series].title_lock
        /\ \A i \in 1..NumSeries :
              db[i].title_lock => runs[k].after[i] = runs[k].before[i]


\* C26: make_request returns the parsed JSON body when a GET or POST
\* succeeds, returns None without raising when the request times out or
\* fails with an HTTP or request error, and raises to the caller for any
\* other method.
C26_MakeRequest ==
    called.fn = "make_request" =>
        IF called.method \notin {"GET", "POST"}
        THEN result.raised
        ELSE /\ ~result.raised
             /\ IF komga.answer = "ok"
                THEN result.value = ListBody(komga, called.page)
                ELSE result.value = None

\* a GET that timed out and an unknown method
C26_Witness ==
    /\ called.fn = "make_request"
    /\ \/ /\ called.method = "GET"
          /\ komga.answer = "timeout"
          /\ result = Returns(None)
       \/ /\ called.method = "PUT"
          /\ result.raised
          /\ result.type = "ValueError"

\* the items of all the pages from page number p on, in page order
RECURSIVE ContentFrom(_, _)
ContentFrom(pages, p) ==
    IF p > Len(pages) THEN <<>> ELSE pages[p] \o ContentFrom(pages, p + 1)

\* C27: get_all_series returns the series of every page of the list, in
\* page order: for a list served in k pages, the items of all k.
C27_AllPages ==
    (called.fn = "get_all_series" /\ called.page = 0 /\ komga.answer = "ok") =>
        /\ ~result.raised
        /\ result.value = ContentFrom(komga.pages, 1)

====
